---- MODULE Spec2Model ----
(***************************************************************************)
(* Content Annotation Pipeline of Briefly: the selection extractor, the    *)
(* annotation renderer and the highlight store of the reading view.        *)
(*                                                                         *)
(* A JavaScript string is a sequence of one-character strings, so that     *)
(* String.slice, String.indexOf, String.trim and the HTML tokenizer are    *)
(* computed character by character, as the code and the browser do.        *)
(***************************************************************************)
EXTENDS Integers, Sequences, FiniteSets, TLC

(***************************************************************************)
(* Bounds of the model.                                                    *)
(***************************************************************************)
\* longest content of the renderer's inputs, in items (a character or a tag)
MaxLen == 2
\* longest highlight list handed to the renderer
MaxHl == 2

(***************************************************************************)
(* Characters.                                                             *)
(***************************************************************************)
Letters ==
  {"a", "b", "c", "d", "e", "f", "g", "h", "i", "j", "k", "l", "m", "n", "o",
   "p", "q", "r", "s", "t", "u", "v", "w", "x", "y", "z", "H"}

\* the characters String.prototype.trim removes and the HTML tokenizer
\* treats as white space
WhiteSpace == {" ", "\n", "\t"}

(***************************************************************************)
(* JavaScript string primitives.                                           *)
(***************************************************************************)
Min(a, b) == IF a < b THEN a ELSE b
Max(a, b) == IF a < b THEN b ELSE a

\* String.prototype.slice(a, b): a negative index counts from the end, both
\* indices are clamped to the string, an empty range gives "".
JsSlice(s, a, b) ==
  LET n    == Len(s)
      from == IF a < 0 THEN Max(n + a, 0) ELSE Min(a, n)
      to   == IF b < 0 THEN Max(n + b, 0) ELSE Min(b, n)
  IN  IF from >= to THEN << >> ELSE SubSeq(s, from + 1, to)

\* String.prototype.slice(a): from a to the end
JsSliceFrom(s, a) == JsSlice(s, a, Len(s))

\* the least element of a non-empty set of integers
Least(S) == CHOOSE i \in S : \A j \in S : i <= j

\* whether t occurs in s at 0-based index i
OccursAt(s, t, i) == \A k \in 1..Len(t) : s[i + k] = t[k]

\* String.prototype.indexOf(t, from): 0-based index of the first occurrence
\* at or after from, or -1
IndexFrom(s, t, from) ==
  LET hits == {i \in from..(Len(s) - Len(t)) : OccursAt(s, t, i)}
  IN  IF hits = {} THEN -1 ELSE Least(hits)

\* String.prototype.indexOf(t)
IndexOf(s, t) == IndexFrom(s, t, 0)

\* String.prototype.trim()
Trim(s) ==
  LET keep == {i \in 1..Len(s) : s[i] \notin WhiteSpace}
  IN  IF keep = {} THEN << >>
      ELSE LET lo == Least(keep)
               hi == CHOOSE i \in keep : \A j \in keep : j <= i
           IN  SubSeq(s, lo, hi)

(***************************************************************************)
(* The HTML tokenizer behind `element.innerHTML = html`.                   *)
(***************************************************************************)
\* The state after character c inside a tag, or "end" when c closes the tag.
TagStep(st, c) ==
  CASE st = "name" ->
         IF c \in WhiteSpace THEN "battr"
         ELSE IF c = "/" THEN "selfclose"
         ELSE IF c = ">" THEN "end" ELSE "name"
    [] st = "battr" ->
         IF c \in WhiteSpace THEN "battr"
         ELSE IF c = "/" THEN "selfclose"
         ELSE IF c = ">" THEN "end" ELSE "aname"
    [] st = "aname" ->
         IF c \in WhiteSpace THEN "aftername"
         ELSE IF c = "/" THEN "selfclose"
         ELSE IF c = ">" THEN "end"
         ELSE IF c = "=" THEN "bval" ELSE "aname"
    [] st = "aftername" ->
         IF c \in WhiteSpace THEN "aftername"
         ELSE IF c = "/" THEN "selfclose"
         ELSE IF c = ">" THEN "end"
         ELSE IF c = "=" THEN "bval" ELSE "aname"
    [] st = "bval" ->
         IF c \in WhiteSpace THEN "bval"
         ELSE IF c = "\"" THEN "dq"
         ELSE IF c = ">" THEN "end" ELSE "unq"
    [] st = "dq" ->
         IF c = "\"" THEN "afterq" ELSE "dq"
    [] st = "unq" ->
         IF c \in WhiteSpace THEN "battr"
         ELSE IF c = ">" THEN "end" ELSE "unq"
    [] st = "afterq" ->
         IF c \in WhiteSpace THEN "battr"
         ELSE IF c = "/" THEN "selfclose"
         ELSE IF c = ">" THEN "end" ELSE "aname"
    [] st = "selfclose" ->
         IF c \in WhiteSpace THEN "battr"
         ELSE IF c = "/" THEN "selfclose"
         ELSE IF c = ">" THEN "end" ELSE "aname"
    [] st = "bogus" ->
         IF c = ">" THEN "end" ELSE "bogus"

\* the characters the tokenizer tells apart inside a tag
TagChars == WhiteSpace \cup {"/", ">", "=", "\""}

\* the states a run of other characters leaves unchanged
RunStates == {"name", "aname", "dq", "unq", "bogus"}

\* Index of the ">" that closes the tag whose scan is in state st at index i,
\* or 0 when the input ends inside the tag (the tokenizer then drops it).  In
\* a state that a run of characters leaves unchanged, the scan goes on at the
\* first character that changes it.
RECURSIVE TagEnd(_, _, _)
TagEnd(s, i, st) ==
  IF i > Len(s) THEN 0
  ELSE IF st \in RunStates THEN
         LET turning == {c \in TagChars : TagStep(st, c) # st}
             hi      == Min(Len(s), i + 31)
             turns   == {j \in i..hi : s[j] \in turning}
         IN  IF turns = {} THEN TagEnd(s, hi + 1, st)
             ELSE LET j  == Least(turns)
                      nx == TagStep(st, s[j])
                  IN  IF nx = "end" THEN j ELSE TagEnd(s, j + 1, nx)
  ELSE LET nx == TagStep(st, s[i])
       IN  IF nx = "end" THEN i ELSE TagEnd(s, i + 1, nx)

TextTok(c) == [kind |-> "text", raw |-> << c >>]
TagTok(raw, close) == [kind |-> IF close THEN "close" ELSE "open", raw |-> raw]

\* the text tokens of the characters i..j of s
TextToks(s, i, j) == [k \in 1..(j - i + 1) |-> TextTok(s[i + k - 1])]

\* The tokens of html from index i on: one token per character of text and one
\* per tag.  "<" opens a tag only before a letter, "</" only before a letter;
\* "</>" is dropped, "</" before anything else opens a bogus comment; any
\* other "<" is text, as is everything up to the next "<".
RECURSIVE Lex(_, _, _)
Lex(s, i, acc) ==
  IF i > Len(s) THEN acc
  ELSE IF s[i] = "<" /\ i < Len(s) /\ s[i + 1] \in Letters THEN
         LET e == TagEnd(s, i + 1, "name")
         IN  IF e = 0 THEN acc
             ELSE Lex(s, e + 1, Append(acc, TagTok(SubSeq(s, i, e), FALSE)))
  ELSE IF s[i] = "<" /\ i + 1 < Len(s) /\ s[i + 1] = "/"
          /\ s[i + 2] \in Letters THEN
         LET e == TagEnd(s, i + 2, "name")
         IN  IF e = 0 THEN acc
             ELSE Lex(s, e + 1, Append(acc, TagTok(SubSeq(s, i, e), TRUE)))
  ELSE IF s[i] = "<" /\ i + 1 < Len(s) /\ s[i + 1] = "/"
          /\ s[i + 2] = ">" THEN
         Lex(s, i + 3, acc)
  ELSE IF s[i] = "<" /\ i + 1 < Len(s) /\ s[i + 1] = "/" THEN
         LET e == TagEnd(s, i + 2, "bogus")
         IN  IF e = 0 THEN acc ELSE Lex(s, e + 1, acc)
  ELSE LET lts == {j \in (i + 1)..Len(s) : s[j] = "<"}
           n   == IF lts = {} THEN Len(s) + 1 ELSE Least(lts)
       IN  Lex(s, n, acc \o TextToks(s, i, n - 1))

\* The child nodes of a div after `div.innerHTML = html`, in document order
Tokens(html) == Lex(html, 1, << >>)

IsText(tok) == tok.kind = "text"

\* The characters of the text tokens of a token sequence
TextOf(toks) ==
  LET ts == SelectSeq(toks, IsText) IN [k \in 1..Len(ts) |-> ts[k].raw[1]]

\* `tempDiv.innerHTML = html; tempDiv.textContent || ''`: the flattened text
Flatten(html) == TextOf(Tokens(html))

(***************************************************************************)
(* The annotation renderer.                                                *)
(***************************************************************************)
\* the colours of a highlight used by the model, as strings
Yellow == <<"y", "e", "l", "l", "o", "w">>
Blue == <<"b", "l", "u", "e">>
Colors == {Yellow, Blue}

\* `bg-${color}-200 dark:bg-${color}-800/30 rounded px-0.5`
HighlightClass(color) ==
  <<"b", "g", "-">> \o color
    \o <<"-", "2", "0", "0", " ", "d", "a", "r", "k", ":", "b", "g", "-">>
    \o color
    \o <<"-", "8", "0", "0", "/", "3", "0", " ", "r", "o", "u", "n", "d", "e",
         "d", " ", "p", "x", "-", "0", ".", "5">>

\* `<mark class="${highlightClass}" data-highlight-id="${id}">`
MarkOpen(color, id) ==
  <<"<", "m", "a", "r", "k", " ", "c", "l", "a", "s", "s", "=", "\"">>
    \o HighlightClass(color)
    \o <<"\"", " ", "d", "a", "t", "a", "-", "h", "i", "g", "h", "l", "i",
         "g", "h", "t", "-", "i", "d", "=", "\"">>
    \o id \o <<"\"", ">">>

MarkClose == <<"<", "/", "m", "a", "r", "k", ">">>

\* `<mark ...>${highlightedText}</mark>`
HighlightHtml(h, highlightedText) ==
  MarkOpen(h.color, h.id) \o highlightedText \o MarkClose

\* replaceTextAtOffset with the tail taken from the start of the occurrence,
\* so that the replaced text stays behind the replacement
ReplaceKeepingTarget(htmlContent, startOffset, endOffset, replacement) ==
  LET targetText      == JsSlice(Flatten(htmlContent), startOffset, endOffset)
      firstOccurrence == IndexOf(htmlContent, targetText)
  IN  IF firstOccurrence # -1
      THEN JsSlice(htmlContent, 0, firstOccurrence) \o replacement
             \o JsSliceFrom(htmlContent, firstOccurrence)
      ELSE htmlContent

\* replaceTextAtOffset: the target is the slice of the flattened text of the
\* HTML it is given; the replacement goes where String.indexOf finds the
\* target in the markup itself.
ReplaceTextAtOffset(htmlContent, startOffset, endOffset, replacement) ==
  LET textContent     == Flatten(htmlContent)
      targetText      == JsSlice(textContent, startOffset, endOffset)
      firstOccurrence == IndexOf(htmlContent, targetText)
  IN  IF firstOccurrence # -1
      THEN JsSlice(htmlContent, 0, firstOccurrence) \o replacement
             \o JsSliceFrom(htmlContent, firstOccurrence + Len(targetText))
      ELSE htmlContent

\* hs with h inserted behind every element that does not start before it
RECURSIVE InsertDesc(_, _)
InsertDesc(hs, h) ==
  IF hs = << >> THEN << h >>
  ELSE IF Head(hs).start_offset >= h.start_offset
       THEN << Head(hs) >> \o InsertDesc(Tail(hs), h)
       ELSE << h >> \o hs

\* `[...highlights].sort((a, b) => b.start_offset - a.start_offset)`:
\* descending start offset, equal offsets keep their order (the sort is stable)
RECURSIVE SortedHighlights(_)
SortedHighlights(hs) ==
  IF hs = << >> THEN << >>
  ELSE InsertDesc(SortedHighlights(SubSeq(hs, 1, Len(hs) - 1)), hs[Len(hs)])

\* one iteration of the loop without the comparison with the stored text
ApplyOneUnchecked(processedContent, textContent, highlight) ==
  ReplaceTextAtOffset(processedContent, highlight.start_offset,
    highlight.end_offset,
    HighlightHtml(highlight,
      JsSlice(textContent, highlight.start_offset, highlight.end_offset)))

\* One iteration of the loop: the highlight is validated against the text of
\* the content as it was given (computed once, before the loop).
ApplyOne(processedContent, textContent, highlight) ==
  LET highlightedText ==
        JsSlice(textContent, highlight.start_offset, highlight.end_offset)
  IN  IF highlightedText = highlight.highlighted_text
      THEN ReplaceTextAtOffset(processedContent, highlight.start_offset,
             highlight.end_offset, HighlightHtml(highlight, highlightedText))
      ELSE processedContent

RECURSIVE ApplyLoop(_, _, _, _)
ApplyLoop(sorted, k, textContent, processedContent) ==
  IF k > Len(sorted) THEN processedContent
  ELSE ApplyLoop(sorted, k + 1, textContent,
                 ApplyOne(processedContent, textContent, sorted[k]))

\* applyHighlightsToContent without the early return and with processedContent
\* starting from the text of the content
ApplyFromTextContent(htmlContent, highlights) ==
  ApplyLoop(SortedHighlights(highlights), 1, Flatten(htmlContent),
            Flatten(htmlContent))

\* applyHighlightsToContent(htmlContent, highlights): the returned string
ApplyHighlightsToContent(htmlContent, highlights) ==
  IF Len(highlights) = 0 THEN htmlContent
  ELSE ApplyLoop(SortedHighlights(highlights), 1, Flatten(htmlContent),
                 htmlContent)

\* What applyHighlightsToContent reports besides the HTML: its return type is
\* string and the loop only skips a highlight that does not validate, so no
\* highlight id is ever reported.
StaleReported(htmlContent, highlights) == {}

(***************************************************************************)
(* Inputs of the renderer.                                                 *)
(***************************************************************************)
BR == <<"<", "b", "r", ">">>

\* the pieces a content is made of: a character of text, or a line break tag
RenderItems == {<<"a">>, <<"b">>, BR}

RECURSIVE Concat(_)
Concat(items) ==
  IF items = << >> THEN << >> ELSE Head(items) \o Concat(Tail(items))

HelloWorld ==
  <<"H", "e", "l", "l", "o", " ", "w", "o", "r", "l", "d", ",", " ", "t", "h",
    "i", "s", " ", "i", "s", " ", "a", " ", "t", "e", "s", "t", ".">>

\* every content of at most MaxLen items, and one text in which a string
\* recurs around another
RenderContents ==
  {Concat(items) : items \in UNION {[1..n -> RenderItems] : n \in 0..MaxLen}}
    \cup {<<"a", "b", "a">>}

\* the id of the k-th highlight record of a list (a uuid in the table)
HlId(k) == << (<<"1", "2", "3", "4">>)[k] >>

\* a text that differs from t: its first character changed
OtherText(t) ==
  IF t = << >> THEN <<"a">>
  ELSE << IF t[1] = "a" THEN "b" ELSE "a" >> \o Tail(t)

\* The highlight records with id k over content html: a range inside the
\* flattened text (end_offset > start_offset, as the table's check constraint
\* demands) whose stored text is the text at the range, or another text; the
\* colour is the one the reading view creates highlights with.
HighlightsOver(html, k) ==
  LET t      == Flatten(html)
      ranges == {r \in (0..Len(t)) \X (0..Len(t)) : r[1] < r[2]}
  IN  UNION {{[id |-> HlId(k), highlighted_text |-> txt,
               start_offset |-> r[1], end_offset |-> r[2], color |-> Yellow] :
                txt \in {JsSlice(t, r[1], r[2]),
                         OtherText(JsSlice(t, r[1], r[2]))}} :
             r \in ranges}

(***************************************************************************)
(* Reading the renderer's output back, as the browser does when the reading*)
(* view assigns it to the container's innerHTML.                           *)
(***************************************************************************)
\* whether string s starts with string p
StartsWith(s, p) == Len(p) <= Len(s) /\ OccursAt(s, p, 0)

\* whether string t occurs in string s
Contains(s, t) == IndexOf(s, t) # -1

\* a start tag of a mark element, an end tag of a mark element
IsMarkOpen(tok) ==
  tok.kind = "open" /\ StartsWith(tok.raw, <<"<", "m", "a", "r", "k", " ">>)
IsMarkClose(tok) == tok.kind = "close" /\ tok.raw = MarkClose

\* the start tag carries the attribute data-highlight-id="id": the element
\* that `[data-highlight-id="id"]` selects
CarriesId(tok, id) ==
  /\ tok.kind = "open"
  /\ Contains(tok.raw,
       <<" ", "d", "a", "t", "a", "-", "h", "i", "g", "h", "l", "i", "g", "h",
         "t", "-", "i", "d", "=", "\"">> \o id \o <<"\"">>)

\* the token is the start tag the renderer writes for highlight h
IsMarkerOf(tok, h) == tok.kind = "open" /\ tok.raw = MarkOpen(h.color, h.id)

\* Index of the end tag that closes the mark element whose content starts at
\* token i (the first </mark> with as many mark start tags as mark end tags
\* between), or Len(toks) + 1 when it is never closed.
MarkEnd(toks, i) ==
  LET opens(j)  == Cardinality({k \in i..(j - 1) : IsMarkOpen(toks[k])})
      closes(j) == Cardinality({k \in i..(j - 1) : IsMarkClose(toks[k])})
      ends == {j \in i..Len(toks) :
                 IsMarkClose(toks[j]) /\ opens(j) = closes(j)}
  IN  IF ends = {} THEN Len(toks) + 1 ELSE Least(ends)

\* the flattened text of the tokens i..j
TextBetween(toks, i, j) == TextOf(SubSeq(toks, i, j))

\* the token indices of the markers of highlight h in html
MarkersOf(html, h) ==
  LET toks == Tokens(html) IN {i \in 1..Len(toks) : IsMarkerOf(toks[i], h)}

\* the elements of html that carry the id
ElementsWithId(html, id) ==
  LET toks == Tokens(html) IN {i \in 1..Len(toks) : CarriesId(toks[i], id)}

\* The marker at token i of html wraps the characters [s, e) of text: the
\* text before it is text[0, s) and the text inside it is text[s, e).
WrapsRange(html, i, text, s, e) ==
  LET toks == Tokens(html)
  IN  /\ TextBetween(toks, 1, i - 1) = JsSlice(text, 0, s)
      /\ TextBetween(toks, i + 1, MarkEnd(toks, i + 1) - 1)
           = JsSlice(text, s, e)

\* the marker at token i of html lies inside the mark element opened at k
NestedIn(html, i, k) ==
  LET toks == Tokens(html) IN k < i /\ i < MarkEnd(toks, k + 1)

\* the highlight validates against the content: its stored text is the slice
Validates(html, h) ==
  JsSlice(Flatten(html), h.start_offset, h.end_offset) = h.highlighted_text

\* list hs without its k-th element
RemoveAt(hs, k) == SubSeq(hs, 1, k - 1) \o SubSeq(hs, k + 1, Len(hs))


(***************************************************************************)
(* The selection extractor.                                                *)
(***************************************************************************)
\* an optional value: None, or Some(x) whose value is Val(o)
None == << >>
Some(x) == << x >>
Val(o) == o[1]

\* a start tag of a br element
IsBr(tok) ==
  /\ tok.kind = "open"
  /\ StartsWith(tok.raw, <<"<", "b", "r">>)
  /\ tok.raw[4] \in WhiteSpace \cup {"/", ">"}

\* `selection.toString()` for the range between the boundaries i and j of the
\* container's nodes: the text of the range as rendered, in which a line
\* break element reads as a newline.
SelectionToString(toks, i, j) ==
  LET seen == SelectSeq(SubSeq(toks, i + 1, j),
                        LAMBDA tok : IsText(tok) \/ IsBr(tok))
  IN  [k \in 1..Len(seen) |->
         IF IsText(seen[k]) THEN seen[k].raw[1] ELSE "\n"]

\* `beforeRange.toString()`: the text nodes' data from the start of the
\* container to boundary i (Range stringification adds nothing for elements)
RangeToString(toks, i) == TextOf(SubSeq(toks, 1, i))

contextLength == 50

\* extractTextSelection without the test that the range lies in the container
ExtractAnywhere(html, sel) ==
  LET toks == Tokens(html)
  IN  IF sel = None \/ Val(sel).from = Val(sel).to THEN None
      ELSE
        LET selectedText == Trim(SelectionToString(toks, Val(sel).from, Val(sel).to))
        IN  IF Len(selectedText) < 3 THEN None
            ELSE
              LET textContent == TextOf(toks)
                  startOffset == Len(RangeToString(toks, Val(sel).from))
                  endOffset   == startOffset + Len(selectedText)
              IN  Some([text |-> selectedText,
                        startOffset |-> startOffset,
                        endOffset |-> endOffset,
                        contextBefore |->
                          JsSlice(textContent,
                                  Max(0, startOffset - contextLength),
                                  startOffset),
                        contextAfter |->
                          JsSlice(textContent, endOffset,
                                  Min(Len(textContent),
                                      endOffset + contextLength))])

\* extractTextSelection(container): the TextSelection, or None.  html is the
\* container's innerHTML and sel the window's selection.
ExtractTextSelection(html, sel) ==
  LET toks == Tokens(html)
  IN  IF sel = None \/ Val(sel).from = Val(sel).to THEN None
      ELSE IF ~Val(sel).inside THEN None
      ELSE
        LET selectedText == Trim(SelectionToString(toks, Val(sel).from, Val(sel).to))
        IN  IF Len(selectedText) < 3 THEN None
            ELSE
              LET textContent == TextOf(toks)
                  startOffset == Len(RangeToString(toks, Val(sel).from))
                  endOffset   == startOffset + Len(selectedText)
              IN  Some([text |-> selectedText,
                        startOffset |-> startOffset,
                        endOffset |-> endOffset,
                        contextBefore |->
                          JsSlice(textContent,
                                  Max(0, startOffset - contextLength),
                                  startOffset),
                        contextAfter |->
                          JsSlice(textContent, endOffset,
                                  Min(Len(textContent),
                                      endOffset + contextLength))])

(***************************************************************************)
(* The reading view of one story, the highlights of the application store  *)
(* and the highlights table.                                               *)
(***************************************************************************)
\* longest content of the story shown, in items
MaxContent == 3
\* most rows the highlights table ever holds (ids it generates)
MaxRows == 2
\* most calls of the store in flight at a time
MaxCalls == 2
\* most calls of the store in flight at a time that the reading view made
MaxViewCalls == 1

VARIABLES
  content,           \* processStoryContent(story) of the story shown
  container,         \* innerHTML of the reading-content div, as last rendered
  table,             \* the rows of public.highlights of this user and story
  nextId,            \* how many ids the table has generated
  highlights,        \* state.highlights[storyId]: None (undefined) or a list
  selection,         \* the window's selection: None or a range of the container
  currentSelection,  \* ReadingView's currentSelection: None or a TextSelection
  showHighlightPopup,
  calls,             \* the store's createHighlight and deleteHighlight calls
                     \* in flight, in the order they were made
  settled            \* the store call that settled last and what its promise
                     \* resolved with: None or a record

VARIABLES
  rHtml,        \* the htmlContent argument
  rHighlights,  \* the highlights argument
  rOut,         \* the string returned
  rDone         \* whether the call has returned

mvars == <<content, container, table, nextId, highlights, selection, currentSelection,
           showHighlightPopup, calls, settled>>
rvars == <<rHtml, rHighlights, rOut, rDone>>

VARIABLES
  dWait,     \* the wait argument of debounce(func, wait)
  dTimeout,  \* the closure's `timeout`: the id of the timer set last, 0 before
  dTimers,   \* the timers of the closure that are pending in the event loop
  dCalls,    \* the arguments of the calls of the debounced function so far
  dInvoked   \* the invocations of func so far

dvars == <<dWait, dTimeout, dTimers, dCalls, dInvoked>>

VARIABLES
  nResult,   \* what the last scrollToHighlight call returned: None or Some
  nScrolled, \* the last scrollIntoView: None or Some(element and options)
  nFocus,    \* the elements of the container with class highlight-focus
  nTimers,   \* the pending timers of scrollToHighlight, oldest first
  nHighlightId,  \* ReadingView's highlightId prop: None or Some(id)
  nDeps,         \* the `highlights` the scroll effect last ran with: None
                 \* before its first run, or Some
  nEffectTimer,  \* whether the scroll effect's timer is pending
  nLookups       \* how many times the scroll effect called scrollToHighlight

nvars == <<nResult, nScrolled, nFocus, nTimers, nHighlightId, nDeps,
           nEffectTimer, nLookups>>

VARIABLES
  pStory,    \* the story handed to processStoryContent
  pThrows,   \* whether the platform's parser raises an exception
  pStage,    \* the stage processStoryContent runs next, or "done"
  pContent   \* processedContent; the value returned when pStage = "done"

pvars == <<pStory, pThrows, pStage, pContent>>

VARIABLES
  sTimers,     \* the pending timers of the selection effect's handlers
  sNextTimer,  \* how many mouseup and keyup events the handlers have taken
  sTimeout     \* per run of the selection effect, its closure's `timeout`:
               \* the id of the timer the debounced function set last, or 0

svars == <<sTimers, sNextTimer, sTimeout>>

vars == <<mvars, rvars, dvars, nvars, pvars, svars>>

\* the selection effect's variables while the effect is not exercised
SelectionIdle == sTimers = {} /\ sNextTimer = 0 /\ sTimeout = << >>

\* the normalizer's variables while processStoryContent is not exercised
NormalizeIdle ==
  /\ pStory = << >> /\ pThrows = FALSE /\ pStage = "done" /\ pContent = << >>

\* the debounce closure's variables while no debounced function is exercised
DebounceIdle ==
  /\ dWait = 0 /\ dTimeout = 0 /\ dTimers = {} /\ dCalls = << >>
  /\ dInvoked = << >>

\* the navigation's variables while scrollToHighlight is not exercised
NavIdle ==
  /\ nResult = << >> /\ nScrolled = << >> /\ nFocus = {} /\ nTimers = << >>
  /\ nHighlightId = << >> /\ nDeps = << >> /\ nEffectTimer = FALSE
  /\ nLookups = 0

ViewItems == {<<"a">>, <<" ">>, BR}

\* the contents of a story: every content of MaxContent items or fewer, and
\* one in which a word follows white space
ViewContents ==
  {Concat(items) : items \in UNION {[1..n -> ViewItems] : n \in 0..MaxContent}}
    \cup {<<" ", "a", "a", "a">>}

\* `highlights[storyId] || []`
HighlightList == IF highlights = None THEN << >> ELSE Val(highlights)

\* The innerHTML the view renders for the story's list hs:
\* applyHighlightsToContent(processStoryContent(story), highlights[storyId] || [])
Rendered(hs) == ApplyHighlightsToContent(content, hs)

\* the renderer's variables while the reading view runs
RenderIdle == rHtml = << >> /\ rHighlights = << >> /\ rOut = << >> /\ rDone = TRUE

Init ==
  /\ content \in ViewContents
  /\ container = content
  /\ table = {}
  /\ nextId = 0
  /\ highlights = None
  /\ selection = None
  /\ currentSelection = None
  /\ showHighlightPopup = FALSE
  /\ calls = << >>
  /\ settled = None
  /\ RenderIdle
  /\ DebounceIdle
  /\ NormalizeIdle
  /\ SelectionIdle
  /\ NavIdle

\* The rows in ascending order of start_offset, as getStoryHighlights orders
\* them (rows of equal start_offset, whose order the query leaves open, by
\* end_offset).
RECURSIVE SortAsc(_)
SortAsc(rows) ==
  IF rows = {} THEN << >>
  ELSE LET r == CHOOSE x \in rows :
                  \A y \in rows :
                    \/ x.start_offset < y.start_offset
                    \/ /\ x.start_offset = y.start_offset
                       /\ x.end_offset <= y.end_offset
       IN  << r >> \o SortAsc(rows \ {r})

\* loadStoryHighlights(storyId), run by the view while highlights[storyId] is
\* undefined: the list becomes the rows of the story by ascending start_offset
\* and the view renders it.  Rendering other markup replaces the container's
\* nodes, which ends a selection inside it.
LoadStoryHighlights ==
  /\ highlights = None
  /\ highlights' = Some(SortAsc(table))
  /\ container' = Rendered(SortAsc(table))
  /\ selection' = IF container' = container THEN selection ELSE None
  /\ UNCHANGED <<content, table, nextId, currentSelection, showHighlightPopup,
                 calls, settled, rvars, dvars, nvars, pvars, svars>>

\* The user selects from boundary i to boundary j of the container's nodes
\* (i = j is a caret).
SelectText ==
  /\ LET n == Len(Tokens(container))
     IN  \E i \in 0..n : \E j \in i..n :
           selection' = Some([from |-> i, to |-> j, inside |-> TRUE])
  /\ UNCHANGED <<content, container, table, nextId, highlights,
                 currentSelection, showHighlightPopup, calls, settled, rvars, dvars, nvars,
                 pvars, svars>>

\* The user selects from the page above the container to the end of the
\* container: the range's common ancestor is an ancestor of the container, and
\* the selected text includes the container's.
SelectOutside ==
  /\ selection' = Some([from |-> 0, to |-> Len(Tokens(container)),
                        inside |-> FALSE])
  /\ UNCHANGED <<content, container, table, nextId, highlights,
                 currentSelection, showHighlightPopup, calls, settled, rvars, dvars, nvars,
                 pvars, svars>>

\* handleSelectionChange, when its debounce timer fires
HandleSelectionChange ==
  /\ LET sel == ExtractTextSelection(container, selection)
     IN  /\ currentSelection' = sel
         /\ showHighlightPopup' = (sel # None)
  /\ UNCHANGED <<content, container, table, nextId, highlights, selection,
                 calls, settled, rvars, dvars, nvars, pvars, svars>>

\* handleCloseHighlightPopup
HandleCloseHighlightPopup ==
  /\ showHighlightPopup
  /\ showHighlightPopup' = FALSE
  /\ currentSelection' = None
  /\ selection' = None
  /\ UNCHANGED <<content, container, table, nextId, highlights, calls,
                 settled, rvars, dvars, nvars, pvars, svars>>

\* a createHighlight(storyId, highlightData) call of the store in flight;
\* result is what the service has answered: None until it has
CreateCall(highlightData, fromView) ==
  [op |-> "create", arg |-> highlightData, fromView |-> fromView,
   result |-> None]

\* a deleteHighlight(highlightId, storyId) call of the store in flight
DeleteCall(highlightId) ==
  [op |-> "delete", arg |-> highlightId, fromView |-> FALSE, result |-> None]

\* handleCreateHighlight up to its await: createHighlight(storyId, {...}) is
\* called with the fields of currentSelection and the colour yellow
HandleCreateHighlight ==
  /\ currentSelection # None
  /\ Len(calls) < MaxViewCalls
  /\ calls' = Append(calls,
                     CreateCall([highlightedText |-> Val(currentSelection).text,
                                 startOffset |-> Val(currentSelection).startOffset,
                                 endOffset |-> Val(currentSelection).endOffset,
                                 color |-> Yellow], TRUE))
  /\ UNCHANGED <<content, container, table, nextId, highlights, selection,
                 currentSelection, showHighlightPopup, settled, rvars, dvars, nvars,
                 pvars, svars>>

\* the row the insert of highlightData creates
NewRow(highlightData, n) ==
  [id |-> HlId(n), highlighted_text |-> highlightData.highlightedText,
   start_offset |-> highlightData.startOffset,
   end_offset |-> highlightData.endOffset, color |-> highlightData.color]

\* The table accepts the row: highlights_offsets_check and
\* unique_user_story_position hold of it.
TableAccepts(row) ==
  /\ row.end_offset > row.start_offset
  /\ \A r \in table :
       <<r.start_offset, r.end_offset>> # <<row.start_offset, row.end_offset>>

\* SupabaseService.createHighlight answers call i: the insert succeeds and the
\* answer carries the new row, or it fails (a violated constraint, no user id,
\* an error of the service or of the network) and the answer carries an error.
ServiceCreateHighlight(i) ==
  /\ calls[i].op = "create"
  /\ calls[i].result = None
  /\ \E ok \in BOOLEAN :
       LET row == NewRow(calls[i].arg, nextId + 1)
       IN  IF ok /\ TableAccepts(row) /\ nextId < MaxRows
           THEN /\ table' = table \cup {row}
                /\ nextId' = nextId + 1
                /\ calls' = [calls EXCEPT ![i].result =
                               Some([highlight |-> Some(row), error |-> FALSE])]
           ELSE /\ calls' = [calls EXCEPT ![i].result =
                               Some([highlight |-> None, error |-> TRUE])]
                /\ UNCHANGED <<table, nextId>>
  /\ UNCHANGED <<content, container, highlights, selection, currentSelection,
                 showHighlightPopup, settled, rvars, dvars, nvars, pvars, svars>>

\* the story's list as it was kept, whatever the answer of the service
AppendUnconfirmed(hs, res) ==
  Some(Append(IF hs = None THEN << >> ELSE Val(hs),
              IF res.highlight # None THEN Val(res.highlight)
              ELSE [id |-> <<"0">>, highlighted_text |-> <<"a">>,
                    start_offset |-> 0, end_offset |-> 1, color |-> Yellow]))

\* the answered highlight put in place of the story's list
ReplaceWithCreated(hs, res) ==
  IF res.error \/ res.highlight = None THEN hs
  ELSE Some(<< Val(res.highlight) >>)

\* the story's list emptied by a failed create
ClearOnError(hs, res) ==
  IF res.error \/ res.highlight = None THEN Some(<< >>)
  ELSE Some(Append(IF hs = None THEN << >> ELSE Val(hs), Val(res.highlight)))

\* state.highlights[storyId] after the store's createHighlight got answer res
\* while it was hs: the answered highlight is appended, and an error or an
\* answer without a highlight leaves it as it is.
AppendCreated(hs, res) ==
  IF res.error THEN hs
  ELSE IF res.highlight # None
       THEN Some(Append(IF hs = None THEN << >> ELSE Val(hs),
                        Val(res.highlight)))
       ELSE hs

\* what the promise of the store's createHighlight resolves with on answer res
CreateHighlightResolves(res) == "undefined"

\* The store's createHighlight call i completes on the answer of the service,
\* the view renders the list, and a handleCreateHighlight that awaited the
\* call clears the selection and hides the popup.
CreateHighlightReturns(i) ==
  /\ calls[i].op = "create"
  /\ calls[i].result # None
  /\ LET res == Val(calls[i].result)
     IN  /\ highlights' = AppendCreated(highlights, res)
         /\ container' = ApplyHighlightsToContent(content,
                            IF highlights' = None THEN << >> ELSE Val(highlights'))
         /\ settled' = Some([op |-> "create", error |-> res.error,
                             value |-> CreateHighlightResolves(res)])
  /\ calls' = RemoveAt(calls, i)
  /\ IF calls[i].fromView
     THEN /\ currentSelection' = None
          /\ showHighlightPopup' = FALSE
          /\ selection' = None
     ELSE /\ selection' = IF container' = container THEN selection ELSE None
          /\ UNCHANGED <<currentSelection, showHighlightPopup>>
  /\ UNCHANGED <<content, table, nextId, rvars, dvars, nvars, pvars, svars>>

\* SupabaseService.deleteHighlight answers call i: the rows with the id are
\* deleted (none, when no row has it) and the answer is a success, or the
\* delete fails and the answer carries an error.
ServiceDeleteHighlight(i) ==
  /\ calls[i].op = "delete"
  /\ calls[i].result = None
  /\ \E ok \in BOOLEAN :
       IF ok
       THEN /\ table' = {r \in table : r.id # calls[i].arg}
            /\ calls' = [calls EXCEPT ![i].result =
                           Some([success |-> TRUE, error |-> FALSE])]
       ELSE /\ calls' = [calls EXCEPT ![i].result =
                           Some([success |-> FALSE, error |-> TRUE])]
            /\ UNCHANGED table
  /\ UNCHANGED <<content, container, nextId, highlights, selection,
                 currentSelection, showHighlightPopup, settled, rvars, dvars, nvars,
                 pvars, svars>>

\* state.highlights[storyId] after the store's deleteHighlight(highlightId)
\* got answer res while it was hs: the list without the highlights of that
\* id, and an error leaves it as it is.
FilterDeleted(hs, highlightId, res) ==
  IF res.error THEN hs
  ELSE Some(SelectSeq(IF hs = None THEN << >> ELSE Val(hs),
                      LAMBDA h : h.id # highlightId))

\* what the promise of the store's deleteHighlight resolves with on answer res
DeleteHighlightResolves(res) == "undefined"

\* The store's deleteHighlight call i completes on the answer of the service
\* and the view renders the list.
DeleteHighlightReturns(i) ==
  /\ calls[i].op = "delete"
  /\ calls[i].result # None
  /\ LET res == Val(calls[i].result)
     IN  /\ highlights' = FilterDeleted(highlights, calls[i].arg, res)
         /\ container' = ApplyHighlightsToContent(content,
                            IF highlights' = None THEN << >> ELSE Val(highlights'))
         /\ settled' = Some([op |-> "delete", error |-> res.error,
                             value |-> DeleteHighlightResolves(res)])
  /\ calls' = RemoveAt(calls, i)
  /\ selection' = IF container' = container THEN selection ELSE None
  /\ UNCHANGED <<content, table, nextId, currentSelection, showHighlightPopup,
                 rvars, dvars, nvars, pvars, svars>>

Next ==
  \/ LoadStoryHighlights
  \/ SelectText
  \/ SelectOutside
  \/ HandleSelectionChange
  \/ HandleCloseHighlightPopup
  \/ HandleCreateHighlight
  \/ \E i \in 1..Len(calls) : ServiceCreateHighlight(i)
  \/ \E i \in 1..Len(calls) : CreateHighlightReturns(i)

Spec == Init /\ [][Next]_vars

(***************************************************************************)
(* The store's highlight actions called by any caller, each call being     *)
(* answered by the service some time after it was made.                    *)
(***************************************************************************)
\* largest offset a caller passes
MaxOffset == 2
\* how many of the ids of the table a caller passes to deleteHighlight
MaxDeleteIds == 1

StoreContents == {<<"a", "b", "a">>}

\* The highlightData a caller passes for content html: a character of the
\* flattened text with its range, a range with an empty text, and a text with
\* an empty range.
StoreData(html) ==
  LET t == Flatten(html)
  IN  {[highlightedText |-> JsSlice(t, r[1], r[2]), startOffset |-> r[1],
        endOffset |-> r[2], color |-> Yellow] :
         r \in {q \in (0..MaxOffset) \X (0..MaxOffset) : q[2] = q[1] + 1}}
      \cup {[highlightedText |-> << >>, startOffset |-> 0, endOffset |-> 1,
             color |-> Yellow],
            [highlightedText |-> JsSlice(t, 0, 1), startOffset |-> 1,
             endOffset |-> 1, color |-> Yellow]}

\* the ids a caller passes to deleteHighlight
StoreIds == {HlId(n) : n \in 1..MaxDeleteIds}

StoreInit ==
  /\ content \in StoreContents
  /\ container = content
  /\ table = {}
  /\ nextId = 0
  /\ highlights = None
  /\ selection = None
  /\ currentSelection = None
  /\ showHighlightPopup = FALSE
  /\ calls = << >>
  /\ settled = None
  /\ RenderIdle
  /\ DebounceIdle
  /\ NormalizeIdle
  /\ SelectionIdle
  /\ NavIdle

\* createHighlight(storyId, highlightData) of the store is called
CreateHighlight(highlightData) ==
  /\ Len(calls) < MaxCalls
  /\ calls' = Append(calls, CreateCall(highlightData, FALSE))
  /\ UNCHANGED <<content, container, table, nextId, highlights, selection,
                 currentSelection, showHighlightPopup, settled, rvars, dvars, nvars,
                 pvars, svars>>

\* deleteHighlight(highlightId, storyId) of the store is called
DeleteHighlight(highlightId) ==
  /\ Len(calls) < MaxCalls
  /\ calls' = Append(calls, DeleteCall(highlightId))
  /\ UNCHANGED <<content, container, table, nextId, highlights, selection,
                 currentSelection, showHighlightPopup, settled, rvars, dvars, nvars,
                 pvars, svars>>

StoreNext ==
  \/ LoadStoryHighlights
  \/ \E highlightData \in StoreData(content) : CreateHighlight(highlightData)
  \/ \E highlightId \in StoreIds : DeleteHighlight(highlightId)
  \/ \E i \in 1..Len(calls) : ServiceCreateHighlight(i)
  \/ \E i \in 1..Len(calls) : CreateHighlightReturns(i)
  \/ \E i \in 1..Len(calls) : ServiceDeleteHighlight(i)
  \/ \E i \in 1..Len(calls) : DeleteHighlightReturns(i)

SpecStore == StoreInit /\ [][StoreNext]_vars

(***************************************************************************)
(* The renderer as a state machine: one call of applyHighlightsToContent   *)
(* on a content and a highlight list.                                      *)
(***************************************************************************)
\* the reading view's variables while the renderer is exercised alone
ViewIdle ==
  /\ content = << >> /\ container = << >> /\ table = {} /\ nextId = 0
  /\ highlights = None
  /\ selection = None /\ currentSelection = None
  /\ showHighlightPopup = FALSE /\ calls = << >> /\ settled = None

\* Scenario A of the specification: "world" at 6..11 of HelloWorld
ScenarioAHighlights ==
  {[id |-> HlId(1), highlighted_text |-> <<"w", "o", "r", "l", "d">>,
    start_offset |-> 6, end_offset |-> 11, color |-> col] : col \in Colors}

RenderInit ==
  /\ \/ /\ rHtml \in RenderContents
        /\ rHighlights = << >>
     \/ /\ rHtml = HelloWorld
        /\ rHighlights \in {<< >>} \cup {<< h >> : h \in ScenarioAHighlights}
  /\ rOut = << >>
  /\ rDone = FALSE
  /\ ViewIdle
  /\ DebounceIdle
  /\ NormalizeIdle
  /\ SelectionIdle
  /\ NavIdle

\* The caller's list grows by one record before the call
AddHighlight ==
  /\ ~rDone
  /\ rHtml # HelloWorld
  /\ Len(rHighlights) < MaxHl
  /\ \E h \in HighlightsOver(rHtml, Len(rHighlights) + 1) :
       rHighlights' = Append(rHighlights, h)
  /\ UNCHANGED <<rHtml, rOut, rDone, mvars, dvars, nvars, pvars, svars>>

\* The call of applyHighlightsToContent(rHtml, rHighlights)
Render ==
  /\ ~rDone
  /\ rOut' = ApplyHighlightsToContent(rHtml, rHighlights)
  /\ rDone' = TRUE
  /\ UNCHANGED <<rHtml, rHighlights, mvars, dvars, nvars, pvars, svars>>

RenderNext == AddHighlight \/ Render

SpecRender == RenderInit /\ [][RenderNext]_vars

(***************************************************************************)
(* Properties of the renderer, checked under SpecRender.                   *)
(***************************************************************************)
\* the ranges of two highlights do not overlap
Disjoint(g, h) ==
  g.end_offset <= h.start_offset \/ h.end_offset <= g.start_offset

\* the range of g contains the range of h, and they are not the same range
ContainsRange(g, h) ==
  /\ g.start_offset <= h.start_offset
  /\ h.end_offset <= g.end_offset
  /\ <<g.start_offset, g.end_offset>> # <<h.start_offset, h.end_offset>>

\* the text t occurs exactly once in string s
OccursOnce(s, t) ==
  /\ IndexOf(s, t) # -1
  /\ IndexFrom(s, t, IndexOf(s, t) + 1) = -1

\* C2: every marker the renderer inserts for a highlight wraps the characters
\* at [start_offset, end_offset) of the flattened text of the content.
C2_MarkersAtTheirOffsets ==
  rDone =>
    \A k \in 1..Len(rHighlights) :
      \A i \in MarkersOf(rOut, rHighlights[k]) :
        WrapsRange(rOut, i, Flatten(rHtml), rHighlights[k].start_offset,
                   rHighlights[k].end_offset)

\* C3: the flattened text of the renderer's output is the flattened text of
\* its input (markers go into text only, so no tag is broken and no markup
\* becomes text).
C3_FlattenedTextPreserved ==
  rDone => Flatten(rOut) = Flatten(rHtml)

\* C4: two validating highlights with disjoint ranges each get exactly one
\* marker, which wraps its own range and is not nested in the other's.
C4_DisjointBothMarked ==
  (rDone /\ Len(rHighlights) = 2
     /\ Validates(rHtml, rHighlights[1]) /\ Validates(rHtml, rHighlights[2])
     /\ Disjoint(rHighlights[1], rHighlights[2]))
  => \A k \in 1..2 :
       LET h  == rHighlights[k]
           g  == rHighlights[3 - k]
           ms == MarkersOf(rOut, h)
       IN  /\ Cardinality(ms) = 1
           /\ \A i \in ms :
                /\ WrapsRange(rOut, i, Flatten(rHtml), h.start_offset,
                              h.end_offset)
                /\ \A j \in MarkersOf(rOut, g) : ~NestedIn(rOut, i, j)

\* C5: of two validating highlights of which one range contains the other, at
\* most one gets a marker, and the one without a marker is reported stale.
C5_ContainedOneMarker ==
  (rDone /\ Len(rHighlights) = 2
     /\ Validates(rHtml, rHighlights[1]) /\ Validates(rHtml, rHighlights[2])
     /\ (\/ ContainsRange(rHighlights[1], rHighlights[2])
         \/ ContainsRange(rHighlights[2], rHighlights[1])))
  => LET marked == {k \in 1..2 : ElementsWithId(rOut, rHighlights[k].id) # {}}
     IN  /\ Cardinality(marked) <= 1
         /\ \A k \in (1..2) \ marked :
              rHighlights[k].id \in StaleReported(rHtml, rHighlights)

\* C6: a highlight whose stored text is not the slice at its offsets gets no
\* marker, its step leaves the HTML as it is, and the output is the output
\* for the list without it.
C6_StaleIsolated ==
  rDone =>
    \A k \in 1..Len(rHighlights) :
      ~Validates(rHtml, rHighlights[k]) =>
        /\ ElementsWithId(rOut, rHighlights[k].id) = {}
        /\ ApplyOne(rOut, Flatten(rHtml), rHighlights[k]) = rOut
        /\ ApplyOne(rHtml, Flatten(rHtml), rHighlights[k]) = rHtml
        /\ rOut = ApplyHighlightsToContent(rHtml, RemoveAt(rHighlights, k))

C6_Witness ==
  /\ rDone
  /\ Len(rHighlights) = 2
  /\ ~Validates(rHtml, rHighlights[1])
  /\ Validates(rHtml, rHighlights[2])
  /\ MarkersOf(rOut, rHighlights[2]) # {}

\* C7: every input highlight has a marker carrying its id in the output or
\* has its id in the reported stale set.
C7_EveryHighlightAccounted ==
  rDone =>
    \A k \in 1..Len(rHighlights) :
      \/ ElementsWithId(rOut, rHighlights[k].id) # {}
      \/ rHighlights[k].id \in StaleReported(rHtml, rHighlights)

\* the case of C8: plain text, one validating highlight whose text occurs once
ScenarioACase ==
  /\ Len(rHighlights) = 1
  /\ Flatten(rHtml) = rHtml
  /\ Validates(rHtml, rHighlights[1])
  /\ OccursOnce(rHtml, rHighlights[1].highlighted_text)

\* C8: for plain text and one validating highlight whose text occurs once, the
\* output is the text before, one marker with the highlight's id and a class
\* naming its colour around exactly the highlighted text, and the text after.
C8_ScenarioA ==
  (rDone /\ ScenarioACase) =>
    LET h == rHighlights[1]
    IN  /\ rOut = JsSlice(rHtml, 0, h.start_offset)
                    \o <<"<", "m", "a", "r", "k", " ", "c", "l", "a", "s",
                         "s", "=", "\"", "b", "g", "-">> \o h.color
                    \o <<"-", "2", "0", "0", " ", "d", "a", "r", "k", ":",
                         "b", "g", "-">> \o h.color
                    \o <<"-", "8", "0", "0", "/", "3", "0", " ", "r", "o",
                         "u", "n", "d", "e", "d", " ", "p", "x", "-", "0",
                         ".", "5", "\"", " ", "d", "a", "t", "a", "-", "h",
                         "i", "g", "h", "l", "i", "g", "h", "t", "-", "i",
                         "d", "=", "\"">> \o h.id \o <<"\"", ">">>
                    \o h.highlighted_text \o MarkClose
                    \o JsSliceFrom(rHtml, h.end_offset)
        /\ Cardinality(ElementsWithId(rOut, h.id)) = 1
        /\ Flatten(rOut) = rHtml

C8_Witness ==
  /\ rDone
  /\ ScenarioACase
  /\ rHtml = HelloWorld
  /\ rHighlights[1].color = Blue

\* C9: with an empty highlight list the renderer returns the content unchanged
C9_EmptyListIdentity ==
  (rDone /\ rHighlights = << >>) => rOut = rHtml

C9_Witness ==
  rDone /\ rHighlights = << >> /\ Flatten(rHtml) # rHtml

(***************************************************************************)
(* Properties of the selection extractor and of created highlights,        *)
(* checked under Spec.                                                     *)
(***************************************************************************)
\* C1: the text of every TextSelection the extractor returns is the slice of
\* the container's flattened text at its offsets, and every highlight created
\* from one validates against the story's content.
C1_RoundTrip ==
  /\ currentSelection # None =>
       JsSlice(Flatten(container), Val(currentSelection).startOffset,
               Val(currentSelection).endOffset) = Val(currentSelection).text
  /\ \A k \in 1..Len(HighlightList) : Validates(content, HighlightList[k])

\* the invariants of a highlight with text t and offsets s, e over a story's
\* content
WellFormedRange(t, s, e) ==
  /\ e > s
  /\ Len(t) = e - s
  /\ s >= 0
  /\ e <= Len(Flatten(content))

\* C10: every TextSelection returned and every highlight in the table or in
\* the story's list has end > start, a text as long as its range, and offsets
\* inside the flattened text of the story's content.
C10_HighlightInvariants ==
  /\ currentSelection # None =>
       WellFormedRange(Val(currentSelection).text,
                       Val(currentSelection).startOffset,
                       Val(currentSelection).endOffset)
  /\ \A r \in table :
       WellFormedRange(r.highlighted_text, r.start_offset, r.end_offset)
  /\ \A k \in 1..Len(HighlightList) :
       WellFormedRange(HighlightList[k].highlighted_text,
                       HighlightList[k].start_offset,
                       HighlightList[k].end_offset)

(***************************************************************************)
(* Properties of the reading view and of the store, checked under Spec.    *)
(***************************************************************************)
\* The three preconditions of the extractor hold of selection sel over the
\* container with innerHTML html: there is a range and it is not collapsed,
\* it lies inside the container, and its trimmed text has 3 characters or more.
SelectionAccepted(html, sel) ==
  /\ sel # None
  /\ Val(sel).from # Val(sel).to
  /\ Val(sel).inside
  /\ Len(Trim(SelectionToString(Tokens(html), Val(sel).from, Val(sel).to))) >= 3

\* C11: whenever the selection handler runs the extractor, it gets a
\* TextSelection if and only if the selection is not collapsed, lies inside
\* the container and has a trimmed text of at least 3 characters; otherwise it
\* gets none.
C11_SelectionRejection ==
  [][HandleSelectionChange =>
       ((currentSelection' # None) <=> SelectionAccepted(container, selection))]_vars

C11_Witness ==
  /\ currentSelection # None
  /\ showHighlightPopup
  /\ SelectionAccepted(container, selection)
  /\ Val(currentSelection).text
       = Trim(SelectionToString(Tokens(container), Val(selection).from,
                                Val(selection).to))
  /\ Len(Val(currentSelection).text)
       < Len(SelectionToString(Tokens(container), Val(selection).from,
                               Val(selection).to))

\* C17: when a create call of the reading view fails, the promise of the
\* store's createHighlight does not resolve as it does on success, and the
\* view keeps the current selection and the popup.
C17_FailureSurfaced ==
  [][\A i \in 1..Len(calls) :
       (CreateHighlightReturns(i) /\ calls[i].fromView
          /\ Val(calls[i].result).error)
       => /\ Val(settled').value # "undefined"
          /\ currentSelection' = currentSelection
          /\ showHighlightPopup' = showHighlightPopup]_vars

(***************************************************************************)
(* Properties of the store's highlight actions, checked under SpecStore.   *)
(***************************************************************************)
\* the rows of the story's in-memory list
ListRows == {HighlightList[k] : k \in 1..Len(HighlightList)}

\* the ids of a set of rows
IdsOf(rows) == {r.id : r \in rows}

\* the create calls in flight that the service answered with a row
Answered == {i \in 1..Len(calls) : /\ calls[i].op = "create"
                                   /\ calls[i].result # None
                                   /\ ~Val(calls[i].result).error}

\* the row the service answered call i with
AnsweredRow(i) == Val(Val(calls[i].result).highlight)

\* C12: no record with an empty text or with end_offset <= start_offset is
\* ever persisted or put in the story's in-memory list by a create call.
C12_CreateValidation ==
  \A r \in table \cup ListRows :
    r.highlighted_text # << >> /\ r.end_offset > r.start_offset

\* C13: a delete of an id that a row has removes exactly that row and answers
\* success; a delete of an id that no row has changes nothing and does not
\* answer success.
C13_DeleteOutcome ==
  [][\A i \in 1..Len(calls) :
       ServiceDeleteHighlight(i) =>
         IF calls[i].arg \in IdsOf(table)
         THEN Val(calls'[i].result).success
                => table' = {r \in table : r.id # calls[i].arg}
         ELSE /\ ~Val(calls'[i].result).success
              /\ table' = table]_vars

\* C14: every highlight of the in-memory list and every marker rendered
\* carries an id the table has generated and, while the table holds that id,
\* is the table's row; nothing of a create call that the service has not
\* answered is in the list or among the markers.
C14_NoOptimisticInsertion ==
  /\ \A r \in ListRows :
       /\ r.id \in {HlId(n) : n \in 1..nextId}
       /\ \A t \in table : t.id = r.id => t = r
  /\ LET toks == Tokens(container)
     IN  \A k \in 1..Len(toks) :
           /\ \A n \in 1..(MaxRows + 1) :
                CarriesId(toks[k], HlId(n)) => HlId(n) \in IdsOf(ListRows)
           /\ ~CarriesId(toks[k], <<"0">>)
  /\ (\E i \in 1..Len(calls) : calls[i].op = "create" /\ calls[i].result = None)
       => HlId(nextId + 1) \notin IdsOf(ListRows)

\* C14 as stated: moreover, while a create call is in flight the list and the
\* markers hold nothing of it, its answered row included.
C14_NothingBeforeCompletion ==
  /\ C14_NoOptimisticInsertion
  /\ \A i \in Answered :
       /\ AnsweredRow(i) \notin ListRows
       /\ ElementsWithId(container, AnsweredRow(i).id) = {}

C14_Witness ==
  /\ highlights # None
  /\ \E i \in Answered :
       /\ AnsweredRow(i) \in table
       /\ AnsweredRow(i) \notin ListRows
       /\ ElementsWithId(container, AnsweredRow(i).id) = {}
  /\ \E i \in 1..Len(calls) :
       calls[i].op = "create" /\ calls[i].result = None

C16_FailedCreateNoChange ==
  [][\A i \in 1..Len(calls) :
       (CreateHighlightReturns(i) /\ Val(calls[i].result).error)
       => /\ highlights' = highlights
          /\ container' = container
          /\ table' = table
          /\ calls' = RemoveAt(calls, i)]_vars

C16_Witness ==
  /\ settled # None /\ Val(settled).op = "create" /\ Val(settled).error
  /\ calls = << >>
  /\ Len(HighlightList) = 1
  /\ ListRows = table
  /\ MarkersOf(container, HighlightList[1]) # {}

(***************************************************************************)
(* debounce(func, wait): the function it returns is called any number of   *)
(* times, and the event loop runs the timers it sets.  Time is not         *)
(* counted: a call made less than wait after another is a call made while  *)
(* the timer of the other is pending.                                      *)
(***************************************************************************)
\* most calls of the debounced function
MaxDebounceCalls == 4

\* the wait arguments: none, and the one of the reading view
DebounceWaits == {0, 200}

\* the arguments the debounced function is called with
DebounceArgs == {"x", "y"}

\* the event loop's timers without the cancelling of the pending one
KeepTimers(timers, id) == timers

\* clearTimeout(id): the timer of that id is pending no more; an id that no
\* pending timer has (undefined before the first call) changes nothing
ClearTimeout(timers, id) == {t \in timers : t.id # id}

\* setTimeout(() => func(...args), wait): a new timer, named by its id
SetTimeout(timers, id, args, wait) ==
  timers \cup {[id |-> id, args |-> args, delay |-> wait]}

DebounceInit ==
  /\ dWait \in DebounceWaits
  /\ dTimeout = 0
  /\ dTimers = {}
  /\ dCalls = << >>
  /\ dInvoked = << >>
  /\ ViewIdle
  /\ RenderIdle
  /\ NavIdle
  /\ NormalizeIdle
  /\ SelectionIdle

\* a call of the returned function with arguments args: the timer of the id in
\* `timeout` is cleared and a new one is set, whose id `timeout` then holds
DebouncedCall(args) ==
  /\ Len(dCalls) < MaxDebounceCalls
  /\ dTimers' = SetTimeout(ClearTimeout(dTimers, dTimeout), Len(dCalls) + 1,
                           args, dWait)
  /\ dTimeout' = Len(dCalls) + 1
  /\ dCalls' = Append(dCalls, args)
  /\ UNCHANGED <<dWait, dInvoked, mvars, rvars, nvars, pvars, svars>>

\* The event loop runs a pending timer, the one set first (all have the same
\* delay): func is invoked with the arguments of the call that set it.
DebounceTimerFires ==
  /\ dTimers # {}
  /\ LET t == CHOOSE x \in dTimers : \A y \in dTimers : x.id <= y.id
     IN  /\ dInvoked' = Append(dInvoked, [args |-> t.args, call |-> t.id,
                                          delay |-> t.delay])
         /\ dTimers' = dTimers \ {t}
  /\ UNCHANGED <<dWait, dTimeout, dCalls, mvars, rvars, nvars, pvars, svars>>

DebounceNext ==
  \/ \E args \in DebounceArgs : DebouncedCall(args)
  \/ DebounceTimerFires

\* the event loop runs a timer that is due
SpecDebounce ==
  DebounceInit /\ [][DebounceNext]_vars /\ WF_vars(DebounceTimerFires)

\* what holds of the closure in every state: the only pending timer is the
\* one of the last call; func was invoked with the arguments of a call, wait
\* after it was set, at most once for a call and in the order of the calls;
\* and when no timer is pending the last call is the last one invoked.
DebounceInvariant ==
  /\ \A t \in dTimers : t.id = Len(dCalls)
  /\ \A k \in 1..Len(dInvoked) :
       /\ dInvoked[k].call \in 1..Len(dCalls)
       /\ dInvoked[k].args = dCalls[dInvoked[k].call]
       /\ dInvoked[k].delay = dWait
       /\ \A j \in 1..(k - 1) : dInvoked[j].call < dInvoked[k].call
  /\ (dTimers = {} /\ dCalls # << >>)
       => /\ dInvoked # << >>
          /\ dInvoked[Len(dInvoked)].call = Len(dCalls)

\* C18: a call cancels the pending invocation of every earlier call; a call
\* never invokes func itself; and after the last call of a burst func is
\* invoked once, with the arguments of that call and after the wait.
C18_Debounce ==
  /\ []DebounceInvariant
  /\ [][(\E args \in DebounceArgs : DebouncedCall(args))
          => dInvoked' = dInvoked]_vars
  /\ \A n \in 1..MaxDebounceCalls :
       (Len(dCalls) = n)
         ~> (\/ Len(dCalls) > n
             \/ /\ dInvoked # << >>
                /\ dInvoked[Len(dInvoked)].call = n
                /\ dInvoked[Len(dInvoked)].args = dCalls[n])

\* a burst of three calls of which only the last was invoked, after a call
\* that was invoked
C18_Witness ==
  /\ Len(dCalls) = 4
  /\ dTimers = {}
  /\ Len(dInvoked) = 2
  /\ dInvoked[1].call = 1
  /\ dInvoked[2].call = 4
  /\ dCalls[3] # dCalls[4]
  /\ dInvoked[2].args = dCalls[4]
  /\ dWait = 200

(***************************************************************************)
(* scrollToHighlight(highlightId, container) on the reading view's         *)
(* container, and the event loop running the timers it sets.               *)
(***************************************************************************)
\* most timers of scrollToHighlight pending at a time
MaxNavTimers == 2

\* the delay after which the emphasis is removed, in ms
focusDelay == 2000

NavContents == {<<"a", "b">>}

\* The lists of highlights of a story with content html: MaxHl records or
\* fewer, no two of the same range (unique_user_story_position).
NavLists(html) ==
  {<< >>}
    \cup UNION {{hs \in [1..n -> UNION {HighlightsOver(html, k) : k \in 1..n}] :
                   /\ \A k \in 1..n : hs[k] \in HighlightsOver(html, k)
                   /\ \A j, k \in 1..n :
                        j # k => <<hs[j].start_offset, hs[j].end_offset>>
                                   # <<hs[k].start_offset, hs[k].end_offset>>} :
                n \in 1..MaxHl}

\* the ids navigated to: the ids of the highlights and one more
NavIds == {HlId(n) : n \in 1..(MaxHl + 1)}

\* querySelector that falls back on the first element that carries an id
QueryFirstMark(html, id) ==
  LET toks == Tokens(html)
      any  == {i \in 1..Len(toks) :
                 \E n \in 1..(MaxHl + 1) : CarriesId(toks[i], HlId(n))}
  IN  IF ElementsWithId(html, id) # {} THEN Least(ElementsWithId(html, id))
      ELSE IF any # {} THEN Least(any) ELSE 0

\* container.querySelector(`[data-highlight-id="${highlightId}"]`): the first
\* element of the container, in document order, that carries the id, or 0
\* (null) when there is none
QuerySelector(html, id) ==
  IF ElementsWithId(html, id) = {} THEN 0 ELSE Least(ElementsWithId(html, id))

\* the pending timers when no timer is set for the element
NoFocusTimer(timers, el) == timers

\* setTimeout(() => highlightElement.classList.remove('highlight-focus'), 2000)
FocusTimer(timers, el) == Append(timers, [el |-> el, delay |-> focusDelay])

NavInit ==
  /\ content \in NavContents
  /\ \E hs \in NavLists(content) :
       /\ highlights = Some(hs)
       /\ table = {hs[k] : k \in 1..Len(hs)}
       /\ nextId = Len(hs)
       /\ container = ApplyHighlightsToContent(content, hs)
  /\ selection = None
  /\ currentSelection = None
  /\ showHighlightPopup = FALSE
  /\ calls = << >>
  /\ settled = None
  /\ nResult = None
  /\ nScrolled = None
  /\ nFocus = {}
  /\ nTimers = << >>
  /\ nHighlightId = None
  /\ nDeps = None
  /\ nEffectTimer = FALSE
  /\ nLookups = 0
  /\ RenderIdle
  /\ DebounceIdle
  /\ NormalizeIdle
  /\ SelectionIdle

\* the body of scrollToHighlight(highlightId, container)
ScrollToHighlightBody(highlightId) ==
  LET highlightElement == QuerySelector(container, highlightId)
  IN  IF highlightElement = 0
      THEN /\ nResult' = Some(FALSE)
           /\ UNCHANGED <<nScrolled, nFocus, nTimers, pvars>>
      ELSE /\ Len(nTimers) < MaxNavTimers
           /\ nScrolled' = Some([el |-> highlightElement,
                                 behavior |-> "smooth", block |-> "center",
                                 inline |-> "nearest"])
           /\ nFocus' = nFocus \cup {highlightElement}
           /\ nTimers' = FocusTimer(nTimers, highlightElement)
           /\ nResult' = Some(TRUE)

\* scrollToHighlight(highlightId, container)
ScrollToHighlight(highlightId) ==
  /\ ScrollToHighlightBody(highlightId)
  /\ UNCHANGED <<nHighlightId, nDeps, nEffectTimer, nLookups, mvars, rvars,
                 dvars, pvars, svars>>

\* The event loop runs the timer set first: the class is removed from its
\* element.
NavTimerFires ==
  /\ nTimers # << >>
  /\ nFocus' = nFocus \ {Head(nTimers).el}
  /\ nTimers' = Tail(nTimers)
  /\ UNCHANGED <<nResult, nScrolled, nHighlightId, nDeps, nEffectTimer,
                 nLookups, mvars, rvars, dvars, pvars, svars>>

NavNext ==
  \/ \E highlightId \in NavIds : ScrollToHighlight(highlightId)
  \/ NavTimerFires

\* the event loop runs a timer that is due
SpecNav == NavInit /\ [][NavNext]_vars /\ WF_vars(NavTimerFires)

\* C19: a scrollToHighlight for an id that no element of the container
\* carries returns false, scrolls nothing, emphasises nothing and sets no
\* timer, and neither the store's state nor the table changes.
C19_NavigationMiss ==
  [][\A id \in NavIds :
       (ScrollToHighlight(id) /\ ElementsWithId(container, id) = {})
       => /\ nResult' = Some(FALSE)
          /\ nScrolled' = nScrolled
          /\ nFocus' = nFocus
          /\ nTimers' = nTimers
          /\ highlights' = highlights
          /\ table' = table
          /\ container' = container]_vars

\* a miss in a container that has markers of other ids, after a hit whose
\* emphasis was cleared
C19_Witness ==
  /\ nResult = Some(FALSE)
  /\ nScrolled # None
  /\ nFocus = {}
  /\ nTimers = << >>
  /\ \E h \in ListRows : MarkersOf(container, h) # {}

\* C20: a scrollToHighlight for an id that an element of the container
\* carries scrolls the first such element into view centered, emphasises it,
\* sets the timer of 2000 ms that removes the emphasis and returns true; and
\* an emphasised element is always eventually not emphasised.
C20_NavigationHit ==
  /\ [][\A id \in NavIds :
          (ScrollToHighlight(id) /\ ElementsWithId(container, id) # {})
          => LET el == Least(ElementsWithId(container, id))
             IN  /\ nResult' = Some(TRUE)
                 /\ nScrolled' # None
                 /\ Val(nScrolled').el = el
                 /\ Val(nScrolled').block = "center"
                 /\ el \in nFocus'
                 /\ Len(nTimers') = Len(nTimers) + 1
                 /\ nTimers'[Len(nTimers')] = [el |-> el, delay |-> 2000]]_vars
  /\ [](\A el \in nFocus : \E k \in 1..Len(nTimers) : nTimers[k].el = el)
  /\ \A id \in NavIds :
       (QuerySelector(container, id) \in nFocus)
         ~> (QuerySelector(container, id) \notin nFocus)

\* the same marker navigated to again while its first timer is pending
C20_Witness ==
  /\ nResult = Some(TRUE)
  /\ Len(nTimers) = 2
  /\ nTimers[1].el = nTimers[2].el
  /\ nTimers[1].el \in nFocus
  /\ Val(nScrolled).el = nTimers[2].el
  /\ \E h \in ListRows : nTimers[1].el \in MarkersOf(container, h)

(***************************************************************************)
(* One navigate-to-highlight request: the reading view is shown with a     *)
(* highlightId while the store loads, creates and deletes highlights of    *)
(* the story.                                                              *)
(***************************************************************************)
\* most scrollToHighlight calls of the scroll effect that are followed
MaxLookups == 3

\* most calls of the store in flight at a time while the request is shown
MaxRequestCalls == 1

\* the highlightData of the creates made while the request is shown: a
\* character of the flattened text with its range
RequestData(html) ==
  {d \in StoreData(html) :
     d.highlightedText # << >> /\ d.endOffset > d.startOffset}

RequestInit ==
  /\ content \in StoreContents
  /\ container = content
  /\ table = {}
  /\ nextId = 0
  /\ highlights = None
  /\ selection = None
  /\ currentSelection = None
  /\ showHighlightPopup = FALSE
  /\ calls = << >>
  /\ settled = None
  /\ nResult = None
  /\ nScrolled = None
  /\ nFocus = {}
  /\ nTimers = << >>
  /\ nHighlightId \in {Some(id) : id \in StoreIds}
  /\ nDeps = None
  /\ nEffectTimer = FALSE
  /\ nLookups = 0
  /\ RenderIdle
  /\ DebounceIdle
  /\ NormalizeIdle
  /\ SelectionIdle

\* The scroll effect of the reading view, run after a commit in which
\* `highlights` is not the value the effect last ran with: the cleanup clears
\* the timer of the previous run, and a timer of 500 ms is set when there is
\* a highlightId and highlights[storyId] is defined.
ScrollEffect ==
  /\ nDeps # Some(highlights)
  /\ nDeps' = Some(highlights)
  /\ nEffectTimer' = (nHighlightId # None /\ highlights # None)
  /\ UNCHANGED <<nResult, nScrolled, nFocus, nTimers, nHighlightId, nLookups,
                 mvars, rvars, dvars, pvars, svars>>

\* the effect's timer fires: scrollToHighlight(highlightId, container)
ScrollEffectTimerFires ==
  /\ nEffectTimer
  /\ nLookups < MaxLookups
  /\ nEffectTimer' = FALSE
  /\ nLookups' = nLookups + 1
  /\ ScrollToHighlightBody(Val(nHighlightId))
  /\ UNCHANGED <<nHighlightId, nDeps, mvars, rvars, dvars, pvars, svars>>

RequestNext ==
  \/ LoadStoryHighlights
  \/ \E highlightData \in RequestData(content) :
       Len(calls) < MaxRequestCalls /\ CreateHighlight(highlightData)
  \/ \E highlightId \in StoreIds :
       Len(calls) < MaxRequestCalls /\ DeleteHighlight(highlightId)
  \/ \E i \in 1..Len(calls) : ServiceCreateHighlight(i)
  \/ \E i \in 1..Len(calls) : CreateHighlightReturns(i)
  \/ \E i \in 1..Len(calls) : ServiceDeleteHighlight(i)
  \/ \E i \in 1..Len(calls) : DeleteHighlightReturns(i)
  \/ ScrollEffect
  \/ ScrollEffectTimerFires
  \/ NavTimerFires

SpecRequest == RequestInit /\ [][RequestNext]_vars

\* C21: for one navigate-to-highlight request the marker lookup is attempted
\* at most twice (the first attempt and one retry); changes of the highlights
\* map after that trigger no further lookup.
C21_BoundedAttempts == nLookups <= 2

(***************************************************************************)
(* The content normalizer: processStoryContent and its stages.  A parsed   *)
(* document is the sequence of the nodes of its body in document order: a  *)
(* start tag and an end tag around the nodes of an element, one node for a *)
(* void element, one node for a run of text.                               *)
(***************************************************************************)
\* the characters of a string literal
Chars(str) == [i \in 1..Len(str) |-> SubSeq(str, i, i)]

UpperCase == Chars("ABCDEFGHIJKLMNOPQRSTUVWXYZ")
LowerCase == Chars("abcdefghijklmnopqrstuvwxyz")

\* String.prototype.toLowerCase()
ToLowerCase(s) ==
  [i \in 1..Len(s) |->
     IF \E k \in 1..26 : UpperCase[k] = s[i]
     THEN LowerCase[CHOOSE k \in 1..26 : UpperCase[k] = s[i]]
     ELSE s[i]]

\* String.prototype.endsWith(t)
EndsWith(s, t) == Len(t) <= Len(s) /\ OccursAt(s, t, Len(s) - Len(t))

\* the least index of i..Len(s) whose character is in set cs, or Len(s) + 1
FirstIn(s, i, cs) ==
  LET hits == {j \in i..Len(s) : s[j] \in cs}
  IN  IF hits = {} THEN Len(s) + 1 ELSE Least(hits)

\* the least index of i..Len(s) whose character is not in set cs, or Len(s) + 1
FirstNotIn(s, i, cs) ==
  LET hits == {j \in i..Len(s) : s[j] \notin cs}
  IN  IF hits = {} THEN Len(s) + 1 ELSE Least(hits)

\* the tag name of a tag token, in lower case
TagName(raw) ==
  LET from == IF raw[2] = "/" THEN 3 ELSE 2
  IN  ToLowerCase(SubSeq(raw, from,
                         FirstIn(raw, from, WhiteSpace \cup {"/", ">"}) - 1))

\* The attributes of a start tag from index i on: names in lower case, a
\* value in double quotes or unquoted, the empty value when there is none; of
\* two attributes of the same name the first one stays.
RECURSIVE ParseAttrs(_, _, _)
ParseAttrs(raw, i, acc) ==
  LET a == FirstNotIn(raw, i, WhiteSpace \cup {"/"})
  IN  IF a > Len(raw) \/ raw[a] = ">" THEN acc
      ELSE LET e    == FirstIn(raw, a + 1, WhiteSpace \cup {"/", ">", "="})
               name == ToLowerCase(SubSeq(raw, a, e - 1))
               q    == FirstNotIn(raw, e, WhiteSpace)
               add(v) == IF \E k \in 1..Len(acc) : acc[k].name = name
                         THEN acc
                         ELSE Append(acc, [name |-> name, value |-> v])
           IN  IF q > Len(raw) \/ raw[q] # "=" THEN ParseAttrs(raw, e, add(<< >>))
               ELSE LET v == FirstNotIn(raw, q + 1, WhiteSpace)
                    IN  IF v > Len(raw) \/ raw[v] = ">"
                        THEN ParseAttrs(raw, v, add(<< >>))
                        ELSE IF raw[v] = "\""
                        THEN LET c == FirstIn(raw, v + 1, {"\""})
                             IN  ParseAttrs(raw, c + 1,
                                            add(SubSeq(raw, v + 1, c - 1)))
                        ELSE LET c == FirstIn(raw, v, WhiteSpace \cup {">"})
                             IN  ParseAttrs(raw, c, add(SubSeq(raw, v, c - 1)))

\* the attributes of a start tag
AttrsOf(raw) == ParseAttrs(raw, 2 + Len(TagName(raw)), << >>)

\* the nodes of a parsed document
ElOpen(tag, attrs) == [kind |-> "open", tag |-> tag, attrs |-> attrs]
ElClose(tag) == [kind |-> "close", tag |-> tag]
ElVoid(tag, attrs) == [kind |-> "void", tag |-> tag, attrs |-> attrs]
TextNode(chars) == [kind |-> "text", text |-> chars]

\* the elements that have no content and no end tag
VoidTags ==
  {Chars("br"), Chars("img"), Chars("hr"), Chars("input"), Chars("embed"),
   Chars("source"), Chars("meta"), Chars("link")}

\* the elements whose start tag ends an open p element
ClosesP ==
  {Chars("p"), Chars("div"), Chars("figure"), Chars("figcaption"),
   Chars("article"), Chars("section"), Chars("main"), Chars("nav"),
   Chars("aside"), Chars("header"), Chars("footer"), Chars("form"),
   Chars("fieldset"), Chars("blockquote"), Chars("pre"), Chars("ul"),
   Chars("ol"), Chars("hr"),
   Chars("h1"), Chars("h2"), Chars("h3"), Chars("h4"), Chars("h5"),
   Chars("h6")}

Headings ==
  {Chars("h1"), Chars("h2"), Chars("h3"), Chars("h4"), Chars("h5"),
   Chars("h6")}

\* the elements the parser puts into the head while the body has not started
HeadTags ==
  {Chars("script"), Chars("style"), Chars("title"), Chars("meta"),
   Chars("link"), Chars("noscript")}

\* the tags of the document's own structure
StructureTags == {Chars("html"), Chars("head"), Chars("body")}

\* The markup without its declarations: "<!" opens a comment that ends with
\* "-->" when it starts with "<!--", and a doctype or a bogus comment that
\* ends with ">" otherwise; an unclosed one takes the rest of the input.
RECURSIVE StripDeclarations(_)
StripDeclarations(s) ==
  LET at == IndexOf(s, Chars("<!"))
  IN  IF at = -1 THEN s
      ELSE LET comment == OccursAt(s, Chars("<!--"), at) /\ at + 4 <= Len(s)
               close   == IF comment THEN IndexFrom(s, Chars("-->"), at + 4)
                          ELSE IndexFrom(s, Chars(">"), at + 2)
               after   == IF close = -1 THEN << >>
                          ELSE JsSliceFrom(s, close + (IF comment THEN 3 ELSE 1))
           IN  JsSlice(s, 0, at) \o StripDeclarations(after)

\* the elements of the stack down to and including the innermost one of tag
\* t, as end tags in the order they are closed
ClosedDownTo(stack, t) ==
  LET at == CHOOSE k \in 1..Len(stack) :
              stack[k] = t /\ \A j \in (k + 1)..Len(stack) : stack[j] # t
  IN  [k \in 1..(Len(stack) - at + 1) |-> ElClose(stack[Len(stack) - k + 1])]

\* the stack without the elements down to and including the innermost t
PoppedDownTo(stack, t) ==
  LET at == CHOOSE k \in 1..Len(stack) :
              stack[k] = t /\ \A j \in (k + 1)..Len(stack) : stack[j] # t
  IN  SubSeq(stack, 1, at - 1)

InStack(stack, t) == \E k \in 1..Len(stack) : stack[k] = t

\* the state of the tree construction: the tags of the open elements of the
\* body, outermost first; whether the body has started; the tag of the head
\* element being skipped, or << >>; the nodes so far
BuildState(stack, body, skip, out) ==
  [stack |-> stack, body |-> body, skip |-> skip, out |-> out]

\* the tree construction's state after a run of text
BuildText(b, run) ==
  LET lead  == FirstNotIn(run, 1, WhiteSpace)
      inPre == /\ b.out # << >> /\ b.out[Len(b.out)].kind = "open"
               /\ b.out[Len(b.out)].tag = Chars("pre")
  IN  \* a newline right after the start tag of a pre element is dropped
      IF inPre /\ run[1] = "\n"
      THEN IF Len(run) = 1 THEN b
           ELSE [b EXCEPT !.out = Append(b.out, TextNode(Tail(run)))]
      ELSE IF b.body THEN [b EXCEPT !.out = Append(b.out, TextNode(run))]
      \* white space before the body is not part of the body
      ELSE IF lead > Len(run) THEN b
      ELSE [b EXCEPT !.body = TRUE,
                     !.out = Append(b.out, TextNode(SubSeq(run, lead, Len(run))))]

\* the tree construction's state after a start tag of the body
BuildOpen(b, t, attrs) ==
  LET closeP == t \in ClosesP /\ InStack(b.stack, Chars("p"))
      st1    == IF closeP THEN PoppedDownTo(b.stack, Chars("p")) ELSE b.stack
      out1   == IF closeP THEN b.out \o ClosedDownTo(b.stack, Chars("p"))
                ELSE b.out
      \* a heading start tag ends an open heading
      closeH == t \in Headings /\ st1 # << >> /\ st1[Len(st1)] \in Headings
      st2    == IF closeH THEN SubSeq(st1, 1, Len(st1) - 1) ELSE st1
      out2   == IF closeH THEN Append(out1, ElClose(st1[Len(st1)])) ELSE out1
  IN  IF t \in VoidTags
      THEN BuildState(st2, TRUE, << >>, Append(out2, ElVoid(t, attrs)))
      ELSE BuildState(Append(st2, t), TRUE, << >>,
                      Append(out2, ElOpen(t, attrs)))

\* the tree construction's state after the tag token tok
BuildTag(b, tok) ==
  LET t == TagName(tok.raw)
  IN  IF b.skip # << >> THEN
        \* inside an element of the head: up to its end tag
        IF tok.kind = "close" /\ t = b.skip THEN [b EXCEPT !.skip = << >>]
        ELSE b
      ELSE IF t \in StructureTags THEN
        [b EXCEPT !.body = b.body \/ (tok.kind = "open" /\ t = Chars("body"))]
      ELSE IF tok.kind = "open" /\ ~b.body /\ t \in HeadTags THEN
        [b EXCEPT !.skip = IF t \in VoidTags THEN << >> ELSE t]
      ELSE IF tok.kind = "open" THEN BuildOpen(b, t, AttrsOf(tok.raw))
      ELSE IF InStack(b.stack, t) THEN
        BuildState(PoppedDownTo(b.stack, t), TRUE, << >>,
                   b.out \o ClosedDownTo(b.stack, t))
      \* an end tag of p without an open p makes an empty p element
      ELSE IF t = Chars("p") THEN
        [b EXCEPT !.body = TRUE,
                  !.out = b.out \o << ElOpen(t, << >>), ElClose(t) >>]
      ELSE b

\* Tree construction from token k on in state b; at the end of the input the
\* open elements are closed.
RECURSIVE Build(_, _, _)
Build(toks, k, b) ==
  IF k > Len(toks)
  THEN b.out \o [j \in 1..Len(b.stack) |->
                   ElClose(b.stack[Len(b.stack) - j + 1])]
  ELSE IF toks[k].kind = "text" /\ b.skip = << >> THEN
    LET ends == {j \in k..Len(toks) : toks[j].kind # "text"}
        e    == IF ends = {} THEN Len(toks) + 1 ELSE Least(ends)
    IN  Build(toks, e, BuildText(b, [j \in 1..(e - k) |-> toks[k + j - 1].raw[1]]))
  ELSE IF toks[k].kind = "text" THEN Build(toks, k + 1, b)
  ELSE Build(toks, k + 1, BuildTag(b, toks[k]))

\* new DOMParser().parseFromString(html, 'text/html'): the nodes of doc.body
ParseFromString(html) ==
  Build(Tokens(StripDeclarations(html)), 1,
        BuildState(<< >>, FALSE, << >>, << >>))

\* the serialization of one attribute
AttrHtml(a) == Chars(" ") \o a.name \o Chars("=\"") \o a.value \o Chars("\"")

\* the serialization of one node
NodeHtml(n) ==
  IF n.kind = "text" THEN n.text
  ELSE IF n.kind = "close" THEN Chars("</") \o n.tag \o Chars(">")
  ELSE Chars("<") \o n.tag
         \o Concat([k \in 1..Len(n.attrs) |-> AttrHtml(n.attrs[k])])
         \o Chars(">")

\* element.innerHTML of the element whose child nodes are d
InnerHTML(d) == Concat([k \in 1..Len(d) |-> NodeHtml(d[k])])

(***************************************************************************)
(* DOM operations on the nodes of a parsed document.                       *)
(***************************************************************************)
IsElement(n) == n.kind \in {"open", "void"}

\* the index of the last node of the element that starts at node i
EndOf(d, i) ==
  IF d[i].kind # "open" THEN i
  ELSE LET depth(j) == Cardinality({k \in i..j : d[k].kind = "open"})
                         - Cardinality({k \in i..j : d[k].kind = "close"})
       IN  Least({j \in i..Len(d) : depth(j) = 0})

\* the text of the text nodes among d[i..j], in document order
TextIn(d, i, j) ==
  LET ts == SelectSeq(SubSeq(d, i, j), LAMBDA n : n.kind = "text")
  IN  Concat([k \in 1..Len(ts) |-> ts[k].text])

\* element.textContent of the element at node i
TextContent(d, i) == TextIn(d, i, EndOf(d, i))

\* the index of the start tag of the parent element of node i, or 0 when the
\* parent is the body
ParentOf(d, i) ==
  LET up == {k \in 1..(i - 1) : d[k].kind = "open" /\ EndOf(d, k) > i}
  IN  IF up = {} THEN 0 ELSE CHOOSE k \in up : \A j \in up : j <= k

HasAttr(n, name) == \E k \in 1..Len(n.attrs) : n.attrs[k].name = name

\* element.getAttribute(name), << >> standing for null as well as for ""
GetAttr(n, name) ==
  IF HasAttr(n, name)
  THEN n.attrs[CHOOSE k \in 1..Len(n.attrs) : n.attrs[k].name = name].value
  ELSE << >>

\* element.setAttribute(name, value): in place when the element has it
SetAttr(n, name, value) ==
  [n EXCEPT !.attrs =
     IF HasAttr(n, name)
     THEN [k \in 1..Len(n.attrs) |->
             IF n.attrs[k].name = name
             THEN [name |-> name, value |-> value] ELSE n.attrs[k]]
     ELSE Append(n.attrs, [name |-> name, value |-> value])]

\* the tokens of a class attribute: its maximal runs of non-space characters
RECURSIVE ClassTokens(_)
ClassTokens(v) ==
  LET a == FirstNotIn(v, 1, WhiteSpace)
  IN  IF a > Len(v) THEN << >>
      ELSE LET e == FirstIn(v, a, WhiteSpace)
           IN  << SubSeq(v, a, e - 1) >>
                 \o ClassTokens(SubSeq(v, e, Len(v)))

HasClass(n, c) ==
  LET ts == ClassTokens(GetAttr(n, Chars("class")))
  IN  \E k \in 1..Len(ts) : ts[k] = c

\* the tokens joined by single spaces
RECURSIVE JoinTokens(_)
JoinTokens(ts) ==
  IF ts = << >> THEN << >>
  ELSE IF Len(ts) = 1 THEN ts[1]
  ELSE ts[1] \o Chars(" ") \o JoinTokens(Tail(ts))

\* element.classList.add(c): the class attribute becomes its tokens and c
ClassListAdd(n, c) ==
  LET ts == ClassTokens(GetAttr(n, Chars("class")))
  IN  IF HasClass(n, c) /\ JoinTokens(ts) = GetAttr(n, Chars("class")) THEN n
      ELSE SetAttr(n, Chars("class"),
                   JoinTokens(IF HasClass(n, c) THEN ts ELSE Append(ts, c)))

\* d with node i replaced by node n
WithNode(d, i, n) == [d EXCEPT ![i] = n]

\* d with the nodes i..j replaced by the nodes r
Splice(d, i, j, r) == SubSeq(d, 1, i - 1) \o r \o SubSeq(d, j + 1, Len(d))

\* d after f was applied to every element of tag in tags, in document order
MapElements(d, tags, f(_)) ==
  [k \in 1..Len(d) |->
     IF IsElement(d[k]) /\ d[k].tag \in tags THEN f(d[k]) ELSE d[k]]

\* `doc.body?.innerHTML || htmlContent`
InnerHTMLOr(d, htmlContent) ==
  IF InnerHTML(d) = << >> THEN htmlContent ELSE InnerHTML(d)

(***************************************************************************)
(* The stages of the normalizer.  `throws` says whether the platform's     *)
(* parser raises an exception in the stage.                                *)
(***************************************************************************)
\* s.replace(/\n\s*\n/g, '</p><p>'): a match starts at a newline and ends
\* at the last newline of the white space that follows it
RECURSIVE ReplaceBlankLines(_)
ReplaceBlankLines(s) ==
  LET starts == {i \in 1..Len(s) :
                   /\ s[i] = "\n"
                   /\ \E j \in (i + 1)..(FirstNotIn(s, i + 1, WhiteSpace) - 1) :
                        s[j] = "\n"}
  IN  IF starts = {} THEN s
      ELSE LET i    == Least(starts)
               run  == FirstNotIn(s, i + 1, WhiteSpace) - 1
               last == CHOOSE j \in (i + 1)..run :
                         s[j] = "\n" /\ \A k \in (j + 1)..run : s[k] # "\n"
           IN  SubSeq(s, 1, i - 1) \o Chars("</p><p>")
                 \o ReplaceBlankLines(SubSeq(s, last + 1, Len(s)))

\* s.replace(/\n/g, '<br>')
ReplaceNewlines(s) ==
  Concat([k \in 1..Len(s) |-> IF s[k] = "\n" THEN BR ELSE << s[k] >>])

\* /<[^>]+>/.test(s)
HasMinimalHtml(s) ==
  \E i \in 1..Len(s) :
    /\ s[i] = "<" /\ i + 2 <= Len(s) /\ s[i + 1] # ">"
    /\ \E j \in (i + 2)..Len(s) : s[j] = ">"

\* s.split('<').length
SplitCount(s) == Cardinality({i \in 1..Len(s) : s[i] = "<"}) + 1

\* the lines of a text node split at "\n"
RECURSIVE SplitLines(_)
SplitLines(s) ==
  LET nl == FirstIn(s, 1, {"\n"})
  IN  IF nl > Len(s) THEN << s >>
      ELSE << SubSeq(s, 1, nl - 1) >> \o SplitLines(SubSeq(s, nl + 1, Len(s)))

LineBreak == ElVoid(Chars("br"), << [name |-> Chars("class"),
                                     value |-> Chars("story-line-break")] >>)

\* the fragment that replaces a text node: its non-blank lines as text nodes
\* and a br between every two lines
LinesFragment(text) ==
  LET lines == SplitLines(text)
  IN  Concat([k \in 1..Len(lines) |->
                (IF Trim(lines[k]) # << >> THEN << TextNode(lines[k]) >>
                 ELSE << >>)
                  \o (IF k < Len(lines) THEN << LineBreak >> ELSE << >>)])

\* the text nodes with newlines replaced, in the nodes from k on
RECURSIVE BreakTextNodes(_, _)
BreakTextNodes(d, k) ==
  IF k > Len(d) THEN d
  ELSE IF /\ d[k].kind = "text"
          /\ \E i \in 1..Len(d[k].text) : d[k].text[i] = "\n"
          /\ Trim(d[k].text) # << >>
          /\ LET p == ParentOf(d, k)
             IN  p = 0 \/ d[p].tag \notin {Chars("pre"), Chars("code")}
  THEN LET frag == LinesFragment(d[k].text)
       IN  BreakTextNodes(Splice(d, k, k, frag), k + Len(frag))
  ELSE BreakTextNodes(d, k + 1)

\* enhanceLineBreaks(htmlContent)
EnhanceLineBreaks(htmlContent, throws) ==
  IF htmlContent = << >> THEN << >>
  ELSE IF ~HasMinimalHtml(htmlContent) \/ SplitCount(htmlContent) < 5
  THEN LET processed == ReplaceNewlines(ReplaceBlankLines(htmlContent))
       IN  IF StartsWith(processed, Chars("<p>")) THEN processed
           ELSE Chars("<p>") \o processed \o Chars("</p>")
  ELSE IF throws THEN htmlContent
  ELSE LET doc == MapElements(ParseFromString(htmlContent), {Chars("br")},
                    LAMBDA n : ClassListAdd(n, Chars("story-line-break")))
       IN  InnerHTMLOr(BreakTextNodes(doc, 1), htmlContent)

\* The match of /^(\s*)(#{1,6}\s+)(.+?)$/m at line start p (1-based), as the
\* record of its parts, or << >>: white space, one to six "#", white space
\* that a character other than a newline follows, and the rest of that line.
HeaderMatch(s, p) ==
  LET h0   == FirstNotIn(s, p, WhiteSpace)
      h1   == FirstNotIn(s, h0, {"#"})
      w1   == FirstNotIn(s, h1, WhiteSpace)
      \* where the header text can start: after the white space, or, when
      \* the white space runs to the end, at its last character that is not
      \* a newline and is not the first one
      qs   == IF w1 <= Len(s) THEN {w1}
              ELSE {q \in (h1 + 1)..Len(s) : s[q] # "\n"}
  IN  IF h0 > Len(s) \/ h1 - h0 \notin 1..6 \/ w1 = h1 \/ qs = {} THEN << >>
      ELSE LET q   == CHOOSE x \in qs : \A y \in qs : y <= x
               eol == FirstIn(s, q, {"\n"})
           IN  << [leadingWhitespace |-> SubSeq(s, p, h0 - 1),
                   level |-> h1 - h0,
                   headerText |-> SubSeq(s, q, eol - 1),
                   end |-> eol] >>

Digit(n) == Chars("0123456789")[n + 1]

\* `${leadingWhitespace}<h${level} class="story-h${level} story-header">${text}</h${level}>`
HeaderHtml(m) ==
  m.leadingWhitespace \o Chars("<h") \o << Digit(m.level) >>
    \o Chars(" class=\"story-h") \o << Digit(m.level) >>
    \o Chars(" story-header\">") \o Trim(m.headerText)
    \o Chars("</h") \o << Digit(m.level) >> \o Chars(">")

\* s.replace(headerRegex, ...) from index p on (p is 1 or follows a newline)
RECURSIVE ReplaceHeaders(_, _)
ReplaceHeaders(s, p) ==
  IF p > Len(s) THEN << >>
  ELSE LET m    == HeaderMatch(s, p)
           next == FirstIn(s, p, {"\n"}) + 1
       IN  IF m = << >>
           THEN SubSeq(s, p, Min(next - 1, Len(s))) \o ReplaceHeaders(s, next)
           ELSE HeaderHtml(m[1])
                  \o (IF m[1].end > Len(s) THEN << >>
                      ELSE << "\n" >> \o ReplaceHeaders(s, m[1].end + 1))

\* convertMarkdownHeaders(htmlContent)
ConvertMarkdownHeaders(htmlContent) ==
  IF htmlContent = << >> THEN << >> ELSE ReplaceHeaders(htmlContent, 1)

\* the extensions of /\.(jpg|jpeg|png|gif|webp|svg|bmp|ico)(\?.*)?$/i
ImageExtensions ==
  {Chars(".jpg"), Chars(".jpeg"), Chars(".png"), Chars(".gif"),
   Chars(".webp"), Chars(".svg"), Chars(".bmp"), Chars(".ico")}

\* imageExtensions.test(href): the href, or its part before a "?", ends in
\* an extension
IsImageLink(href) ==
  LET h == ToLowerCase(href)
  IN  \E e \in (1..Len(h)) \cup {Len(h) + 1} :
        /\ e = Len(h) + 1 \/ h[e] = "?"
        /\ \E x \in ImageExtensions : EndsWith(SubSeq(h, 1, e - 1), x)

\* href.split('/').pop()
LastSegment(href) ==
  LET slashes == {i \in 1..Len(href) : href[i] = "/"}
  IN  IF slashes = {} THEN href
      ELSE SubSeq(href, (CHOOSE i \in slashes : \A j \in slashes : j <= i) + 1,
                  Len(href))

SuggestsImage(text, href) ==
  LET linkText == ToLowerCase(text)
  IN  \/ Contains(linkText, Chars("image"))
      \/ Contains(linkText, Chars("photo"))
      \/ Contains(linkText, Chars("picture"))
      \/ Contains(linkText, Chars("img"))
      \/ linkText = ToLowerCase(LastSegment(href))

\* `isImageLink || (suggestsImage && href.startsWith('http'))`
Promotes(text, href) ==
  IsImageLink(href) \/ (SuggestsImage(text, href) /\ StartsWith(href, Chars("http")))

Attr(name, value) == [name |-> Chars(name), value |-> value]

\* the figure that replaces a link of text `text` to href
Figure(text, href) ==
  << ElOpen(Chars("figure"), << Attr("class", Chars("story-image-wrapper")) >>),
     ElVoid(Chars("img"),
            << Attr("src", href),
               Attr("alt", IF text = << >> THEN Chars("Image") ELSE text),
               Attr("class", Chars("story-image")) >>) >>
    \o (IF text # << >> /\ text # href
        THEN << ElOpen(Chars("figcaption"),
                       << Attr("class", Chars("story-image-caption")) >>),
                TextNode(text), ElClose(Chars("figcaption")) >>
        ELSE << >>)
    \o << ElClose(Chars("figure")) >>

\* the links of querySelectorAll('a[href]') handled from the last one of the
\* nodes 1..k to the first (a link does not contain a link)
RECURSIVE PromoteLinks(_, _)
PromoteLinks(d, k) ==
  IF k = 0 THEN d
  ELSE IF /\ d[k].kind = "open" /\ d[k].tag = Chars("a")
          /\ GetAttr(d[k], Chars("href")) # << >>
          /\ Promotes(TextContent(d, k), GetAttr(d[k], Chars("href")))
  THEN PromoteLinks(Splice(d, k, EndOf(d, k),
                           Figure(TextContent(d, k),
                                  GetAttr(d[k], Chars("href")))), k - 1)
  ELSE PromoteLinks(d, k - 1)

\* convertImageLinksToTags(htmlContent)
ConvertImageLinksToTags(htmlContent, throws) ==
  IF htmlContent = << >> THEN << >>
  ELSE IF throws THEN htmlContent
  ELSE LET doc == ParseFromString(htmlContent)
       IN  InnerHTMLOr(PromoteLinks(doc, Len(doc)), htmlContent)

\* one img of enhanceImages: its attributes
EnhancedImage(img) ==
  LET classed == ClassListAdd(img, Chars("story-image"))
      alted   == IF GetAttr(classed, Chars("alt")) = << >>
                 THEN SetAttr(classed, Chars("alt"), Chars("Image"))
                 ELSE classed
  IN  SetAttr(alted, Chars("loading"), Chars("lazy"))

\* the images of the nodes 1..k from the last one to the first: each gets
\* its attributes and, unless its parent is a figure or a picture, a figure
\* around it
RECURSIVE WrapImages(_, _)
WrapImages(d, k) ==
  IF k = 0 THEN d
  ELSE IF d[k].kind = "void" /\ d[k].tag = Chars("img")
  THEN LET p == ParentOf(d, k)
       IN  IF p # 0 /\ d[p].tag \in {Chars("figure"), Chars("picture")}
           THEN WrapImages(WithNode(d, k, EnhancedImage(d[k])), k - 1)
           ELSE WrapImages(
                  Splice(d, k, k,
                         << ElOpen(Chars("figure"),
                                   << Attr("class", Chars("story-image-wrapper")) >>),
                            EnhancedImage(d[k]),
                            ElClose(Chars("figure")) >>), k - 1)
  ELSE WrapImages(d, k - 1)

\* enhanceImages(htmlContent)
EnhanceImages(htmlContent, throws) ==
  IF htmlContent = << >> THEN << >>
  ELSE IF throws THEN htmlContent
  ELSE LET doc == ParseFromString(htmlContent)
       IN  InnerHTMLOr(WrapImages(doc, Len(doc)), htmlContent)

\* the paragraphs without text and without a child element removed, in the
\* nodes 1..k from the last to the first
RECURSIVE RemoveEmptyParagraphs(_, _)
RemoveEmptyParagraphs(d, k) ==
  IF k = 0 THEN d
  ELSE IF /\ d[k].kind = "open" /\ d[k].tag = Chars("p")
          /\ Trim(TextContent(d, k)) = << >>
          /\ \A j \in (k + 1)..EndOf(d, k) : ~IsElement(d[j])
  THEN RemoveEmptyParagraphs(Splice(d, k, EndOf(d, k), << >>), k - 1)
  ELSE RemoveEmptyParagraphs(d, k - 1)

\* one link of enhanceTextFormatting
EnhancedLink(a) ==
  IF ~HasAttr(a, Chars("href")) THEN a
  ELSE LET classed == ClassListAdd(a, Chars("story-link"))
       IN  IF /\ StartsWith(GetAttr(a, Chars("href")), Chars("http"))
              /\ GetAttr(a, Chars("target")) = << >>
           THEN SetAttr(SetAttr(classed, Chars("target"), Chars("_blank")),
                        Chars("rel"), Chars("noopener noreferrer"))
           ELSE classed

\* enhanceTextFormatting(htmlContent)
EnhanceTextFormatting(htmlContent, throws) ==
  IF htmlContent = << >> THEN << >>
  ELSE IF throws THEN htmlContent
  ELSE LET doc  == ParseFromString(htmlContent)
           hd   == MapElements(doc, Headings,
                     LAMBDA n : ClassListAdd(
                                  ClassListAdd(n, Chars("story-") \o n.tag),
                                  Chars("story-header")))
           ps   == RemoveEmptyParagraphs(
                     MapElements(hd, {Chars("p")},
                       LAMBDA n : ClassListAdd(n, Chars("story-paragraph"))),
                     Len(hd))
           ls   == MapElements(ps, {Chars("ul"), Chars("ol")},
                     LAMBDA n : ClassListAdd(n, Chars("story-list")))
           lis  == MapElements(ls, {Chars("li")},
                     LAMBDA n : ClassListAdd(n, Chars("story-list-item")))
           qs   == MapElements(lis, {Chars("blockquote")},
                     LAMBDA n : ClassListAdd(n, Chars("story-blockquote")))
           cs   == MapElements(qs, {Chars("pre"), Chars("code")},
                     LAMBDA n : ClassListAdd(n,
                       IF n.tag = Chars("pre") THEN Chars("story-code-block")
                       ELSE Chars("story-code-inline")))
           es   == MapElements(cs, {Chars("strong"), Chars("b"), Chars("em"),
                                    Chars("i")},
                     LAMBDA n : ClassListAdd(n,
                       IF n.tag \in {Chars("strong"), Chars("b")}
                       THEN Chars("story-bold") ELSE Chars("story-italic")))
           as   == MapElements(es, {Chars("a")}, EnhancedLink)
       IN  InnerHTMLOr(as, htmlContent)

\* A selector of the normalizer: a tag name, a class, an id, a role, or a
\* tag name with a role ("" for the part it does not constrain).
Selector(tag, class, id, role) ==
  [tag |-> Chars(tag), class |-> Chars(class), id |-> Chars(id),
   role |-> Chars(role)]

\* element.matches(selector)
Matches(n, sel) ==
  /\ IsElement(n)
  /\ sel.tag = << >> \/ n.tag = sel.tag
  /\ sel.class = << >> \/ HasClass(n, sel.class)
  /\ sel.id = << >> \/ (HasAttr(n, Chars("id")) /\ GetAttr(n, Chars("id")) = sel.id)
  /\ sel.role = << >>
       \/ (HasAttr(n, Chars("role")) /\ GetAttr(n, Chars("role")) = sel.role)

\* contentSelectors, without its last entry 'body'
ContentSelectors ==
  << Selector("article", "", "", ""), Selector("", "", "", "main"),
     Selector("main", "", "", ""), Selector("", "article-content", "", ""),
     Selector("", "post-content", "", ""), Selector("", "entry-content", "", ""),
     Selector("", "content-body", "", ""), Selector("", "story-content", "", ""),
     Selector("", "", "content", ""), Selector("", "content", "", "") >>

\* PRESERVE_ELEMENTS
PRESERVE_ELEMENTS ==
  {Chars("article"), Chars("section"), Chars("div"), Chars("main"),
   Chars("h1"), Chars("h2"), Chars("h3"), Chars("h4"), Chars("h5"),
   Chars("h6"),
   Chars("p"), Chars("span"), Chars("strong"), Chars("b"), Chars("em"),
   Chars("i"), Chars("u"), Chars("mark"), Chars("del"), Chars("ins"),
   Chars("ul"), Chars("ol"), Chars("li"), Chars("dl"), Chars("dt"),
   Chars("dd"),
   Chars("a"), Chars("img"), Chars("picture"), Chars("source"),
   Chars("figure"), Chars("figcaption"),
   Chars("table"), Chars("thead"), Chars("tbody"), Chars("tfoot"),
   Chars("tr"), Chars("th"), Chars("td"), Chars("caption"),
   Chars("blockquote"), Chars("q"), Chars("cite"), Chars("code"),
   Chars("pre"), Chars("kbd"), Chars("samp"), Chars("var"),
   Chars("br"), Chars("hr"),
   Chars("time"), Chars("abbr"), Chars("acronym"), Chars("address"),
   Chars("small"), Chars("sub"), Chars("sup")}

\* REMOVE_ELEMENTS
REMOVE_ELEMENTS ==
  {Selector(t, "", "", "") :
     t \in {"script", "style", "noscript", "iframe", "embed", "object",
            "form", "input", "button", "select", "textarea", "fieldset",
            "legend", "nav", "aside", "footer"}}
    \cup {Selector("header", "", "", "banner")}
    \cup {Selector("", "", "", r) :
            r \in {"navigation", "complementary", "banner"}}
    \cup {Selector("", c, "", "") :
            c \in {"advertisement", "ad", "ads", "sidebar", "navigation",
                   "nav-menu", "comments", "comment-section", "social-share",
                   "share-buttons", "newsletter-signup", "popup", "modal",
                   "overlay"}}

\* PRESERVE_ATTRIBUTES: the names kept, and the prefixes of "data-*", "aria-*"
PRESERVE_ATTRIBUTES ==
  {Chars("href"), Chars("src"), Chars("alt"), Chars("title"), Chars("class"),
   Chars("id"), Chars("loading"), Chars("width"), Chars("height"),
   Chars("role"), Chars("lang"), Chars("dir")}

ShouldPreserve(name) ==
  \/ name \in PRESERVE_ATTRIBUTES
  \/ StartsWith(name, Chars("data-"))
  \/ StartsWith(name, Chars("aria-"))

\* the element without the attributes that are not preserved
CleanAttributes(n) ==
  [n EXCEPT !.attrs = SelectSeq(n.attrs, LAMBDA a : ShouldPreserve(a.name))]

\* the elements among the nodes of d that match the selector and have text
\* that is not blank
Candidates(d, sel) ==
  {i \in 1..Len(d) : Matches(d[i], sel) /\ Trim(TextContent(d, i)) # << >>}

\* The main content element of the document: the start tag's index, or 0 for
\* the body.  Of the candidates of the first selector that has one, the
\* first of those with the longest textContent.
MainContent(d) ==
  LET hits == {s \in 1..Len(ContentSelectors) :
                 Candidates(d, ContentSelectors[s]) # {}}
  IN  IF hits = {} THEN 0
      ELSE LET c == Candidates(d, ContentSelectors[Least(hits)])
           IN  CHOOSE i \in c :
                 \A j \in c :
                   \/ Len(TextContent(d, j)) < Len(TextContent(d, i))
                   \/ Len(TextContent(d, j)) = Len(TextContent(d, i)) /\ i <= j

\* the child nodes of the element at i, or of the body when i = 0
ChildNodes(d, i) == IF i = 0 THEN d ELSE SubSeq(d, i + 1, EndOf(d, i) - 1)

\* the nodes without the elements that match a selector of REMOVE_ELEMENTS
RemoveUnwanted(d) ==
  LET gone == {k \in 1..Len(d) :
                 \E i \in 1..k :
                   /\ \E sel \in REMOVE_ELEMENTS : Matches(d[i], sel)
                   /\ k <= EndOf(d, i)}
      keep == {k \in 1..Len(d) : k \notin gone}
      \* the k-th kept index
      nth[k \in 1..Cardinality(keep)] ==
        CHOOSE i \in keep : Cardinality({j \in keep : j <= i}) = k
  IN  [k \in 1..Cardinality(keep) |-> d[nth[k]]]

\* `div.innerHTML = html`: the nodes of the fragment
ParseFragment(html) ==
  Build(Tokens(StripDeclarations(html)), 1,
        BuildState(<< >>, TRUE, << >>, << >>))

\* The elements the walker collected, handled from node k on: an element
\* that is not preserved is replaced by a div around the nodes parsed from
\* its innerHTML when it has more than ten characters of text that is not
\* blank, and removed otherwise; a preserved element loses its other
\* attributes.  The nodes of the new div were not collected.
RECURSIVE CleanElements(_, _)
CleanElements(d, k) ==
  IF k > Len(d) THEN d
  ELSE IF ~IsElement(d[k]) THEN CleanElements(d, k + 1)
  ELSE IF d[k].tag \notin PRESERVE_ELEMENTS
  THEN LET e    == EndOf(d, k)
           text == TextIn(d, k, e)
       IN  IF Trim(text) # << >> /\ Len(text) > 10
           THEN LET div == << ElOpen(Chars("div"),
                                     << Attr("class", Chars("story-content")) >>) >>
                             \o ParseFragment(InnerHTML(ChildNodes(d, k)))
                             \o << ElClose(Chars("div")) >>
                IN  CleanElements(Splice(d, k, e, div), k + Len(div))
           ELSE CleanElements(Splice(d, k, e, << >>), k)
  ELSE CleanElements(WithNode(d, k, CleanAttributes(d[k])), k + 1)

\* htmlContent.match(/<body[^>]*>([\s\S]*?)<\/body>/i): << >> or the group
BodyMatch(htmlContent) ==
  LET h     == ToLowerCase(htmlContent)
      open  == IndexOf(h, Chars("<body"))
      gt    == IF open = -1 THEN -1 ELSE IndexFrom(h, Chars(">"), open + 5)
      close == IF gt = -1 THEN -1 ELSE IndexFrom(h, Chars("</body>"), gt + 1)
  IN  IF close = -1 THEN << >>
      ELSE << JsSlice(htmlContent, gt + 1, close) >>

\* the catch block of cleanHtmlContent
CleanFallback(htmlContent) ==
  IF BodyMatch(htmlContent) # << >> THEN BodyMatch(htmlContent)[1]
  ELSE htmlContent

\* cleanHtmlContent(htmlContent)
CleanHtmlContent(htmlContent, throws) ==
  IF htmlContent = << >> THEN << >>
  ELSE IF throws THEN CleanFallback(htmlContent)
  ELSE LET doc == ParseFromString(htmlContent)
           cleanedElement == ChildNodes(doc, MainContent(doc))
       IN  InnerHTML(CleanElements(RemoveUnwanted(cleanedElement), 1))

\* isFullHtmlDocument(content)
IsFullHtmlDocument(str) ==
  \/ StartsWith(ToLowerCase(Trim(str)), Chars("<html"))
  \/ Contains(str, Chars("<!DOCTYPE"))

\* `story.html_content || story.content`
RawContent(story) ==
  IF story.html_content # None /\ Val(story.html_content) # << >>
  THEN Val(story.html_content) ELSE story.content

(***************************************************************************)
(* processStoryContent as a state machine: one step per stage.             *)
(***************************************************************************)
\* a story with html_content, a story with content only
HtmlStory(html) == [html_content |-> Some(Chars(html)), content |-> << >>]
TextStory(text) == [html_content |-> None, content |-> Chars(text)]

\* the stories whose content is plain text
PlainStories ==
  {TextStory(t) :
     t \in {"## Section\nBody text", "# A", "Intro\n### Three\nmore",
            "###### Six\n\nnext", "a\n\nb", "plain", " ", "#hash\n####### 7"}}

\* the stories whose content is an HTML fragment
FragmentStories ==
  {HtmlStory(h) :
     h \in {"<a href=\"https://x.com/img.png\">photo</a>",
            "<a href=\"https://x.com/i.PNG?w=1\">see</a>",
            "<a href=\"/gallery\">photo</a>",
            "<a href=\"https://x.com/p\">my image</a>",
            "<a href=\"https://x.com/p\">text</a>",
            "<a href=\"u.gif\"></a>",
            "<a href=\"http://x/u.jpg\">http://x/u.jpg</a>",
            "<p>a</p><p><a href=\"b.svg\">B</a> and <a href=\"c\">c</a></p>",
            "<p>a</p><script>x</script>",
            "<div>a<style>s</style><nav>menu</nav><form>f<input name=\"q\"></form></div>",
            "<p>text<span class=\"ad\">buy</span></p><div class=\"comments\">c</div>",
            "<img src=\"i.png\">",
            "# T<b>x</b><i>y</i>",
            "<pre>a\n## In pre\n</pre><b>x</b><br>",
            "about <!DOCTYPE in a text"}}

\* the stories whose content is a full HTML document
DocumentStories ==
  {HtmlStory(h) :
     h \in {"<html><body><script>x</script></body></html>",
            "<!DOCTYPE html><html><body></body></html>",
            "<html><body><nav>menu</nav><form>f</form></body></html>",
            "<html><body><p style=\"c\" id=\"i\">text</p><script>x</script></body></html>",
            "<!DOCTYPE html><html><head><title>T</title></head><body><main><p onclick=\"e\">one</p></main><main><p>longer</p><div class=\"ad\">buy</div></main></body></html>",
            "<html><body><article> </article><div role=\"main\">r</div><div class=\"content\">longer</div></body></html>",
            "<html><body><div class=\"content\">c</div><div id=\"content\">longer</div>tail</body></html>",
            "<html><body><font color=\"red\"><b onclick=\"e\">long enough text</b><blink>u</blink></font><font>tiny</font></body></html>",
            "<HTML><body>x</body></HTML>",
            " \n<html><body>x</body></html>",
            "<!doctype html><html><body><script>x</script>y</body></html>",
            "<html><body>a</body>b</body></html>"}}

\* a story whose html_content is empty
EmptyHtmlStory == [html_content |-> Some(<< >>), content |-> Chars("c")]

Stories == PlainStories \cup FragmentStories \cup DocumentStories
             \cup {EmptyHtmlStory}

NormalizeInit ==
  /\ pStory \in Stories
  /\ pThrows \in BOOLEAN
  /\ pStage = "clean"
  /\ pContent = RawContent(pStory)
  /\ ViewIdle
  /\ RenderIdle
  /\ DebounceIdle
  /\ NavIdle
  /\ SelectionIdle

\* `if (isFullHtmlDocument(htmlContent)) processedContent = cleanHtmlContent(htmlContent)`
Clean ==
  /\ pStage = "clean"
  /\ pContent' = IF IsFullHtmlDocument(RawContent(pStory))
                 THEN CleanHtmlContent(RawContent(pStory), pThrows)
                 ELSE pContent
  /\ pStage' = "lineBreaks"
  /\ UNCHANGED <<pStory, pThrows, mvars, rvars, dvars, nvars, svars>>

\* `processedContent = enhanceLineBreaks(processedContent)`
LineBreaks ==
  /\ pStage = "lineBreaks"
  /\ pContent' = EnhanceLineBreaks(pContent, pThrows)
  /\ pStage' = "headers"
  /\ UNCHANGED <<pStory, pThrows, mvars, rvars, dvars, nvars, svars>>

\* `processedContent = convertMarkdownHeaders(processedContent)`
MarkdownHeaders ==
  /\ pStage = "headers"
  /\ pContent' = ConvertMarkdownHeaders(pContent)
  /\ pStage' = "imageLinks"
  /\ UNCHANGED <<pStory, pThrows, mvars, rvars, dvars, nvars, svars>>

\* `processedContent = convertImageLinksToTags(processedContent)`
ImageLinks ==
  /\ pStage = "imageLinks"
  /\ pContent' = ConvertImageLinksToTags(pContent, pThrows)
  /\ pStage' = "images"
  /\ UNCHANGED <<pStory, pThrows, mvars, rvars, dvars, nvars, svars>>

\* `processedContent = enhanceImages(processedContent)`
Images ==
  /\ pStage = "images"
  /\ pContent' = EnhanceImages(pContent, pThrows)
  /\ pStage' = "formatting"
  /\ UNCHANGED <<pStory, pThrows, mvars, rvars, dvars, nvars, svars>>

\* `processedContent = enhanceTextFormatting(processedContent); return processedContent`
TextFormatting ==
  /\ pStage = "formatting"
  /\ pContent' = EnhanceTextFormatting(pContent, pThrows)
  /\ pStage' = "done"
  /\ UNCHANGED <<pStory, pThrows, mvars, rvars, dvars, nvars, svars>>

NormalizeNext ==
  \/ Clean
  \/ LineBreaks
  \/ MarkdownHeaders
  \/ ImageLinks
  \/ Images
  \/ TextFormatting

SpecNormalize == NormalizeInit /\ [][NormalizeNext]_vars

\* processStoryContent(story)
ProcessStoryContent(story, throws) ==
  LET htmlContent == RawContent(story)
      cleaned == IF IsFullHtmlDocument(htmlContent)
                 THEN CleanHtmlContent(htmlContent, throws) ELSE htmlContent
  IN  EnhanceTextFormatting(
        EnhanceImages(
          ConvertImageLinksToTags(
            ConvertMarkdownHeaders(EnhanceLineBreaks(cleaned, throws)),
            throws),
          throws),
        throws)

(***************************************************************************)
(* Properties of the normalizer, checked under SpecNormalize.              *)
(***************************************************************************)
\* the lines of the raw content that are markdown headings: one to six "#",
\* white space and a title, as records of level and title
HeadingLines(raw) ==
  LET lines == SplitLines(raw)
      hashes(l) == FirstNotIn(l, 1, {"#"}) - 1
  IN  {[level |-> hashes(lines[k]),
        title |-> Trim(SubSeq(lines[k], hashes(lines[k]) + 1, Len(lines[k])))] :
         k \in {j \in 1..Len(lines) :
                  /\ hashes(lines[j]) \in 1..6
                  /\ hashes(lines[j]) < Len(lines[j])
                  /\ lines[j][hashes(lines[j]) + 1] \in WhiteSpace
                  /\ Trim(SubSeq(lines[j], hashes(lines[j]) + 1,
                                 Len(lines[j]))) # << >>}}

\* the output has a heading element of the level that contains the title
HasHeading(html, level, title) ==
  LET d == ParseFragment(html)
  IN  \E i \in 1..Len(d) :
        /\ d[i].kind = "open"
        /\ d[i].tag = Chars("h") \o << Digit(level) >>
        /\ TextContent(d, i) = title

\* C22: for raw content with a line of k "#" (1 <= k <= 6), white space and
\* a title, processStoryContent returns a level-k heading element that
\* contains the title; "## Section\nBody text" gives a level-2 heading
\* "Section" followed by "Body text".
C22_MarkdownHeadings ==
  (pStage = "done" /\ ~pThrows)
    => /\ \A h \in HeadingLines(RawContent(pStory)) :
            HasHeading(pContent, h.level, h.title)
       /\ RawContent(pStory) = Chars("## Section\nBody text")
            => /\ HasHeading(pContent, 2, Chars("Section"))
               /\ Flatten(pContent) = Chars("SectionBody text")

\* the links of a content: href and text of its a[href] elements
AnchorsOf(html) ==
  LET d == ParseFromString(html)
  IN  {[href |-> GetAttr(d[i], Chars("href")), text |-> TextContent(d, i)] :
         i \in {k \in 1..Len(d) :
                  /\ d[k].kind = "open" /\ d[k].tag = Chars("a")
                  /\ GetAttr(d[k], Chars("href")) # << >>}}

\* the output has a figure with an image of src href and alt text, and with
\* a caption reading text exactly when withCaption
HasFigure(html, href, text, withCaption) ==
  LET d == ParseFragment(html)
  IN  \E i \in 1..Len(d) :
        /\ d[i].kind = "open" /\ d[i].tag = Chars("figure")
        /\ \E j \in i..EndOf(d, i) :
             /\ d[j].kind = "void" /\ d[j].tag = Chars("img")
             /\ GetAttr(d[j], Chars("src")) = href
             /\ GetAttr(d[j], Chars("alt")) = text
        /\ withCaption
             <=> \E j \in i..EndOf(d, i) :
                   /\ d[j].kind = "open" /\ d[j].tag = Chars("figcaption")
                   /\ TextContent(d, j) = text

\* C23: every anchor whose href ends in an image extension, or whose text
\* suggests an image, is replaced in the output of processStoryContent by a
\* figure with an image (src the href, alt the link text) and a caption
\* reading the link text exactly when the text is not empty and is not the
\* URL; the anchor is gone.
C23_ImageLinkPromotion ==
  (pStage = "done" /\ ~pThrows)
    => \A a \in AnchorsOf(RawContent(pStory)) :
         (IsImageLink(a.href) \/ SuggestsImage(a.text, a.href))
           => /\ HasFigure(pContent, a.href, a.text,
                           a.text # << >> /\ a.text # a.href)
              /\ a \notin AnchorsOf(pContent)

\* C24: for every story whose raw content is not empty, including a full
\* document whose main content holds only disallowed elements and a story
\* without html_content, processStoryContent returns a non-empty string.
C24_NeverEmpty ==
  (pStage = "done" /\ RawContent(pStory) # << >>) => pContent # << >>

\* C25: when the parsing inside cleanHtmlContent fails, the result of
\* cleanHtmlContent is the original raw content, character for character, not
\* an extracted part of it; and a later stage whose parsing fails returns
\* its input unmodified.
C25_ParseFailureFallback ==
  [][pThrows
       => /\ Clean => pContent' = RawContent(pStory)
          /\ (ImageLinks \/ Images \/ TextFormatting) => pContent' = pContent]_vars

\* the elements of a content that a REMOVE_ELEMENTS selector matches
Disallowed(html) ==
  LET d == ParseFromString(html)
  IN  {[tag |-> d[i].tag, text |-> TextContent(d, i)] :
         i \in {k \in 1..Len(d) : \E sel \in REMOVE_ELEMENTS : Matches(d[k], sel)}}

\* C26: for every raw content, a full document or a fragment, the output
\* of processStoryContent has no script, style, form, control, navigation,
\* advertisement, social-share or comment element, and none of the text that
\* was inside such an element of the raw content.
C26_DisallowedRemoved ==
  (pStage = "done" /\ ~pThrows)
    => /\ Disallowed(pContent) = {}
       /\ \A e \in Disallowed(RawContent(pStory)) :
            e.text # << >> => ~ Contains(Flatten(pContent), e.text)

\* C27: every element of the output of cleanHtmlContent, at any depth, the
\* descendants of a demoted unknown element included, carries only
\* attributes of the allow-list, and no element whose tag is outside the
\* preserve list remains (it was demoted to a div or removed).
C27_AttributeAllowList ==
  (pStage = "lineBreaks" /\ ~pThrows /\ IsFullHtmlDocument(RawContent(pStory)))
    => LET d == ParseFragment(pContent)
       IN  \A i \in 1..Len(d) :
             IsElement(d[i])
               => /\ d[i].tag \in PRESERVE_ELEMENTS
                  /\ \A k \in 1..Len(d[i].attrs) : ShouldPreserve(d[i].attrs[k].name)

\* the content starts with a document root tag or a doctype, in any case
StartsAsDocument(str) ==
  \/ StartsWith(ToLowerCase(Trim(str)), Chars("<html"))
  \/ StartsWith(ToLowerCase(Trim(str)), Chars("<!doctype"))

\* the element at i (0: the body) is the one with the most text among the
\* matches of the first selector that has a match with non-blank text
IsBestMatch(d, i) ==
  LET nonBlank(s) == \E j \in 1..Len(d) :
                       /\ Matches(d[j], ContentSelectors[s])
                       /\ Trim(TextContent(d, j)) # << >>
  IN  IF \A s \in 1..Len(ContentSelectors) : ~ nonBlank(s) THEN i = 0
      ELSE \E s \in 1..Len(ContentSelectors) :
             /\ nonBlank(s)
             /\ \A r \in 1..(s - 1) : ~ nonBlank(r)
             /\ i # 0 /\ Matches(d[i], ContentSelectors[s])
             /\ \A j \in 1..Len(d) :
                  Matches(d[j], ContentSelectors[s])
                    => Len(TextContent(d, j)) <= Len(TextContent(d, i))

\* C28: raw content is cleaned as a full document exactly when it starts with
\* a document root tag or a doctype, in any letter case, and not because a
\* doctype string occurs inside it; the subtree selected for such a document
\* is the element with the most text among the matches of the
\* highest-priority selector that has a match with non-blank text, and the
\* body when no selector matches.
C28_DocumentDetection ==
  (pStage = "lineBreaks" /\ ~pThrows)
    => LET raw == RawContent(pStory)
       IN  /\ pContent = IF StartsAsDocument(raw)
                         THEN CleanHtmlContent(raw, FALSE) ELSE raw
           /\ StartsAsDocument(raw)
                => IsBestMatch(ParseFromString(raw), MainContent(ParseFromString(raw)))

(***************************************************************************)
(* The store's loadStoryHighlights as a call in flight, next to the        *)
(* createHighlight and deleteHighlight calls: the service answers the      *)
(* query some time after the call, and the store sets the list some time   *)
(* after the answer.                                                       *)
(***************************************************************************)
\* a loadStoryHighlights(storyId) call of the store in flight
LoadCall == [op |-> "load", arg |-> << >>, fromView |-> TRUE, result |-> None]

\* The view's effect calls loadStoryHighlights(storyId): the story's list is
\* undefined and the effect has not run since highlights changed last.
LoadStoryHighlightsCalled ==
  /\ highlights = None
  /\ \A i \in 1..Len(calls) : calls[i].op # "load"
  /\ Len(calls) < MaxCalls
  /\ calls' = Append(calls, LoadCall)
  /\ UNCHANGED <<content, container, table, nextId, highlights, selection,
                 currentSelection, showHighlightPopup, settled, rvars, dvars, nvars,
                 pvars, svars>>

\* SupabaseService.getStoryHighlights answers call i: the rows of the story
\* by ascending start_offset, or an error with an empty list.
GetStoryHighlights(i) ==
  /\ calls[i].op = "load"
  /\ calls[i].result = None
  /\ \E ok \in BOOLEAN :
       calls' = [calls EXCEPT ![i].result =
                   Some([highlights |-> IF ok THEN SortAsc(table) ELSE << >>,
                         error |-> ~ok])]
  /\ UNCHANGED <<content, container, table, nextId, highlights, selection,
                 currentSelection, showHighlightPopup, settled, rvars, dvars, nvars,
                 pvars, svars>>

\* state.highlights[storyId] after loadStoryHighlights got answer res while
\* it was hs: the answered list, and an error leaves it as it is.
SetLoaded(hs, res) == IF res.error THEN hs ELSE Some(res.highlights)

\* The store's loadStoryHighlights call i completes on the answer of the
\* service, and the view renders the list.
LoadStoryHighlightsReturns(i) ==
  /\ calls[i].op = "load"
  /\ calls[i].result # None
  /\ highlights' = SetLoaded(highlights, Val(calls[i].result))
  /\ container' = Rendered(IF highlights' = None THEN << >> ELSE Val(highlights'))
  /\ selection' = IF container' = container THEN selection ELSE None
  /\ calls' = RemoveAt(calls, i)
  /\ UNCHANGED <<content, table, nextId, currentSelection, showHighlightPopup,
                 settled, rvars, dvars, nvars, pvars, svars>>

RaceNext ==
  \/ LoadStoryHighlightsCalled
  \/ \E i \in 1..Len(calls) : GetStoryHighlights(i)
  \/ \E i \in 1..Len(calls) : LoadStoryHighlightsReturns(i)
  \/ \E highlightData \in StoreData(content) : CreateHighlight(highlightData)
  \/ \E highlightId \in StoreIds : DeleteHighlight(highlightId)
  \/ \E i \in 1..Len(calls) : ServiceCreateHighlight(i)
  \/ \E i \in 1..Len(calls) : CreateHighlightReturns(i)
  \/ \E i \in 1..Len(calls) : ServiceDeleteHighlight(i)
  \/ \E i \in 1..Len(calls) : DeleteHighlightReturns(i)

SpecRace == StoreInit /\ [][RaceNext]_vars

\* C29: for every interleaving of loadStoryHighlights with createHighlight
\* and deleteHighlight, once no operation is in flight the story's list holds
\* exactly the persisted rows of the story, each once: a load answer computed
\* before a create or delete does not overwrite it, and a load answer that
\* holds a just-created row does not make the row appear twice.
C29_LoadRace ==
  (calls = << >> /\ highlights # None)
    => /\ \A r \in table :
            Cardinality({k \in 1..Len(Val(highlights)) : Val(highlights)[k] = r}) = 1
       /\ \A k \in 1..Len(Val(highlights)) : Val(highlights)[k] \in table

(***************************************************************************)
(* The reading view's selection effect over a change of story: the         *)
(* listeners of a run of the effect, the timers their handlers set, and    *)
(* the cleanup that runs when `story` changes.                             *)
(***************************************************************************)
\* most mouseup and keyup events the listeners take
MaxMouseUps == 2
\* most changes of story
MaxStoryChanges == 2

\* the contents of the stories the view shows one after the other
StaleContents == {<<"a", "a", "a">>, <<" ", "a", "a", "a">>}

\* setTimeout(handleSelectionChange, 10)
selectionDelay == 10
\* debounce(..., 200)
selectionWait == 200

\* the run of the effect whose listeners are registered
CurrentRun == Len(sTimeout)

StaleInit ==
  /\ content \in StaleContents
  /\ container = content
  /\ table = {}
  /\ nextId = 0
  /\ highlights = Some(<< >>)
  /\ selection = None
  /\ currentSelection = None
  /\ showHighlightPopup = FALSE
  /\ calls = << >>
  /\ settled = None
  /\ sTimers = {}
  /\ sNextTimer = 0
  /\ sTimeout = << 0 >>
  /\ RenderIdle
  /\ DebounceIdle
  /\ NormalizeIdle
  /\ NavIdle

\* handleMouseUp, and handleKeyUp on a selection key, of the registered
\* listeners: `setTimeout(handleSelectionChange, 10)`
HandleMouseUp ==
  /\ sNextTimer < MaxMouseUps
  /\ sNextTimer' = sNextTimer + 1
  /\ sTimers' = sTimers \cup {[id |-> sNextTimer + 1, run |-> CurrentRun,
                               delay |-> selectionDelay]}
  /\ UNCHANGED <<sTimeout, mvars, rvars, dvars, nvars, pvars>>

\* The timer of handleMouseUp fires: the debounced handleSelectionChange of
\* its run of the effect is called, which clears the timer in the closure's
\* `timeout` and sets a new one.
SelectionDelayFires(t) ==
  /\ t \in sTimers
  /\ t.delay = selectionDelay
  /\ sTimers' = {x \in sTimers \ {t} :
                   ~ (x.delay = selectionWait /\ x.id = sTimeout[t.run])}
                  \cup {[id |-> t.id, run |-> t.run, delay |-> selectionWait]}
  /\ sTimeout' = [sTimeout EXCEPT ![t.run] = t.id]
  /\ UNCHANGED <<sNextTimer, mvars, rvars, dvars, nvars, pvars>>

\* The debounce timer fires: the function handed to debounce runs,
\* extractTextSelection(contentElement) on the reading-content element, and
\* sets currentSelection and showHighlightPopup.
SelectionExtractionFires(t) ==
  /\ t \in sTimers
  /\ t.delay = selectionWait
  /\ sTimers' = sTimers \ {t}
  /\ LET sel == ExtractTextSelection(container, selection)
     IN  /\ currentSelection' = sel
         /\ showHighlightPopup' = (sel # None)
  /\ UNCHANGED <<content, container, table, nextId, highlights, selection,
                 calls, settled, sNextTimer, sTimeout, rvars, dvars, nvars,
                 pvars>>

\* `story` changes: the element renders the new story's content, which ends
\* a selection inside it; the effect's cleanup removes the two listeners, and
\* the effect runs again with a new debounced function and new listeners.
StoryChanges ==
  /\ CurrentRun <= MaxStoryChanges
  /\ content' \in StaleContents \ {content}
  /\ container' = content'
  /\ selection' = None
  /\ sTimeout' = Append(sTimeout, 0)
  /\ UNCHANGED <<table, nextId, highlights, currentSelection,
                 showHighlightPopup, calls, settled, sTimers, sNextTimer,
                 rvars, dvars, nvars, pvars>>

StaleNext ==
  \/ SelectText
  \/ HandleMouseUp
  \/ \E t \in sTimers : SelectionDelayFires(t)
  \/ \E t \in sTimers : SelectionExtractionFires(t)
  \/ StoryChanges

SpecStale == StaleInit /\ [][StaleNext]_vars

\* C30: once the view has removed its selection listeners, no extraction
\* scheduled before that moment sets the current selection or shows the
\* highlight popup: an extraction of an earlier run of the effect leaves
\* both as they are.
C30_NoStaleExtraction ==
  [][\A t \in sTimers :
       (SelectionExtractionFires(t) /\ t.run < CurrentRun)
         => UNCHANGED <<currentSelection, showHighlightPopup>>]_vars

====
